---- MODULE Spec2Model ----
(***************************************************************************)
(* The animated generative-tree engine of Emotion-Tree (p5 sketch).       *)
(*                                                                         *)
(* Two evolutions of the sketch live in the repository and both are        *)
(* modelled, selected by the variable `variant`:                           *)
(*   "style"  : src/services/treeSketch.ts (flower styles, grounding       *)
(*              particles, capacity 300, bloom event only)                 *)
(*   "wither" : src/unnamed/part_005 (bloom and wither events, life-based  *)
(*              particles)                                                 *)
(*                                                                         *)
(* Numbers.  The sketch computes in IEEE doubles.  Here every quantity is  *)
(* a fixed-point integer in thousandths (Unit): moods, winds and factors,  *)
(* lengths, positions and velocities in pixels, angles in radians, a       *)
(* particle's life.  A product or quotient is rounded to the nearest       *)
(* thousandth (RoundDiv).                                                  *)
(*                                                                         *)
(* Randomness and noise.  p.random and p.noise are inputs of the model:    *)
(* the values they return in a frame are drawn with \E from small sets     *)
(* (how many eligible branches hit their spawn window, the draws of a      *)
(* spawned particle, the lateral force of the frame).  p.frameCount and    *)
(* p.millis are read only as arguments of p.noise and of the sway sine, so *)
(* they are part of those inputs and not of the state.                     *)
(***************************************************************************)
EXTENDS Integers, Sequences, FiniteSets, TLC

VARIABLES
    variant,       \* which evolution of createSketch is running
    hasSink,       \* whether the optional onTreeEvent callback was supplied
    phase,         \* "absent" (no p5 instance) | "created" (before p.setup) | "running"
    width, height, \* canvas size p.width, p.height (pixels)
    treeState,     \* treeStateRef.current: [mood, windForce], read by getTreeState
    plan,          \* the script of a scripted state source: segments [mood, windForce, frames]
    currentMood,   \* smoothed mood
    currentWind,   \* smoothed wind
    wasBlooming,   \* bloom latch
    wasWithering,  \* wither latch (wither variant)
    particles,     \* the particle store, oldest first
    rootBranch,    \* the baked skeleton, NoBranch before setup
    fed,           \* frames the scripted state source has fed so far
    sunk,          \* the events passed to onTreeEvent during the last draw call
    bloomed,       \* a 'bloom' event was passed to the sink since creation
    trough,        \* how low the smoothed mood has been since the last 'bloom' event
    spawned,       \* particles pushed since creation (the serial of the newest)
    peak,          \* store size when the last draw call entered updateParticles
    culled,        \* particles the last updateParticles removed after its trim
    gone,          \* those particles, as they were when they were spliced out
    rebuilds,      \* buildTreeSkeleton runs since the last draw call
    flowerStyle,   \* flowerStyleRef.current, read by getFlowerStyle
    frameStyle,    \* the style tag the last draw call passed down ("none": no call yet)
    drawn,         \* what the last updateParticles rendered, in the order it drew
    seen,          \* the snapshot the last draw call got from getTreeState
    hasStarted,    \* App state: the main view (with SketchContainer) is rendered
    isLooping,     \* App ref isLooping.current
    scheduled,     \* predictLoop callbacks waiting in the animation-frame queue
    sketches,      \* p5 instances created since the main view was last mounted
    appMounted,    \* the App component is mounted
    awaiting,      \* initVideo is suspended at `await videoRef.current.play()`
    modelsLoaded,  \* App state: initializeVision has resolved
    loading,       \* loadModels is suspended at `await initializeVision()`
    permissionError, \* App state: a camera request was rejected
    stream,        \* streamRef.current holds a MediaStream
    asking,        \* handleStartExperience is suspended at `await getUserMedia(...)`
    today,         \* the date new Date().toLocaleDateString() returns (a day number)
    stats,         \* App state stats: [blooms, date]
    stored,        \* localStorage item 'emotionTreeStats': [present, blooms, date]
    restored,      \* what the Initialize Stats effect took from storage: [done, blooms, date]
    tally          \* 'bloom' events handleTreeEvent has handled, by the date of the call

vars == <<variant, hasSink, phase, width, height, treeState, plan, currentMood,
          currentWind, wasBlooming, wasWithering, particles, rootBranch,
          fed, sunk, bloomed, trough, spawned, peak, culled, gone, rebuilds,
          flowerStyle, frameStyle, drawn, seen, hasStarted, isLooping,
          scheduled, sketches, appMounted, awaiting, modelsLoaded, loading,
          permissionError, stream, asking, today, stats, stored, restored,
          tally>>

\* the App's landing state: model loading and the camera request
landVars == <<modelsLoaded, loading, permissionError, stream, asking>>

\* the App's daily statistics
statVars == <<today, stats, stored, restored, tally>>

\* the variables of the host components (App, SketchContainer)
hostVars ==
    <<flowerStyle, hasStarted, isLooping, scheduled, sketches, appMounted, awaiting,
      landVars>>

(***************************************************************************)
(* Fixed-point arithmetic                                                  *)
(***************************************************************************)

\* the number 1.0
Unit == 1000

\* a / b rounded to the nearest integer (b # 0)
RoundDiv(a, b) ==
    IF b > 0 THEN (2 * a + b) \div (2 * b)
    ELSE (2 * (0 - a) + (0 - b)) \div (2 * (0 - b))

Min(a, b) == IF a < b THEN a ELSE b

Max(a, b) == IF a > b THEN a ELSE b

\* p.constrain(n, low, high)
constrain(n, low, high) == Max(Min(n, high), low)

\* p.lerp(start, stop, amt) = amt * (stop - start) + start, amt in hundredths
lerp(start, stop, amtPct) == RoundDiv(amtPct * (stop - start), 100) + start

\* p.map(n, start1, stop1, start2, stop2, true): the linear map, then clamped
\* between start2 and stop2
map(n, start1, stop1, start2, stop2) ==
    LET newval == RoundDiv((n - start1) * (stop2 - start2), stop1 - start1) + start2
    IN  IF start2 < stop2 THEN constrain(newval, start2, stop2)
        ELSE constrain(newval, stop2, start2)

(***************************************************************************)
(* Configuration of the sketch                                             *)
(***************************************************************************)

MAX_DEPTH == 9

MAX_PARTICLES == 300

\* blend factors of the two smoothers, in hundredths
MoodBlend == 10

WindBlend == 12

\* hysteresis thresholds of the bloom latch: set above 0.6, clear below 0.2
BloomOn == (6 * Unit) \div 10

BloomOff == (2 * Unit) \div 10

\* hysteresis thresholds of the wither latch: set below -0.6, clear above -0.2
WitherOn == 0 - (6 * Unit) \div 10

WitherOff == 0 - (2 * Unit) \div 10

\* rootBranch before p.setup: let rootBranch: Branch | null = null
NoBranch == [len |-> 0, thick |-> 0, seed |-> [a |-> 0, b |-> 0], built |-> FALSE]

(***************************************************************************)
(* Signal smoother and event detector (p.draw, first part)                 *)
(***************************************************************************)

\* a smoother with blend factor 1.1 instead of 0.1
SmoothMoodPast(cur, target) == lerp(cur, target, 110)

\* a smoother that blends 0.01 of the way instead of 0.1
SmoothMoodSlow(cur, target) == lerp(cur, target, 1)

\* no smoothing: the detector reads the raw mood
SmoothMoodNone(cur, target) == target

\* a smoother that blends 0.11 of the way instead of 0.1
SmoothMoodQuicker(cur, target) == lerp(cur, target, 11)

\* currentMood = p.lerp(currentMood, state.mood, 0.1)
SmoothMood(cur, target) == lerp(cur, target, MoodBlend)

\* currentWind = p.lerp(currentWind, targetWind, 0.12)
SmoothWind(cur, target) == lerp(cur, target, WindBlend)

\* a bloom detector with one threshold: the latch clears as soon as the mood
\* is back under 0.6
BloomStepOneThreshold(was, mood) ==
    IF ~was /\ mood > BloomOn THEN [latch |-> TRUE, fire |-> TRUE]
    ELSE IF was /\ mood < BloomOn THEN [latch |-> FALSE, fire |-> FALSE]
    ELSE [latch |-> was, fire |-> FALSE]

\* a bloom detector that forgets to test the latch before raising the event
BloomStepNoLatchTest(was, mood) ==
    IF mood > BloomOn THEN [latch |-> TRUE, fire |-> TRUE]
    ELSE IF was /\ mood < BloomOff THEN [latch |-> FALSE, fire |-> FALSE]
    ELSE [latch |-> was, fire |-> FALSE]

\* a bloom detector that also raises the event when the latch clears
BloomStepFireOnClear(was, mood) ==
    IF ~was /\ mood > BloomOn THEN [latch |-> TRUE, fire |-> TRUE]
    ELSE IF was /\ mood < BloomOff THEN [latch |-> FALSE, fire |-> TRUE]
    ELSE [latch |-> was, fire |-> FALSE]

\* a bloom detector whose latch clears only below -0.8
BloomStepLateClear(was, mood) ==
    IF ~was /\ mood > BloomOn THEN [latch |-> TRUE, fire |-> TRUE]
    ELSE IF was /\ mood < 0 - (8 * Unit) \div 10 THEN [latch |-> FALSE, fire |-> FALSE]
    ELSE [latch |-> was, fire |-> FALSE]

\* the if / else-if on wasBlooming: [latch after, whether 'bloom' is raised]
BloomStep(was, mood) ==
    IF ~was /\ mood > BloomOn THEN [latch |-> TRUE, fire |-> TRUE]
    ELSE IF was /\ mood < BloomOff THEN [latch |-> FALSE, fire |-> FALSE]
    ELSE [latch |-> was, fire |-> FALSE]

\* a wither detector that is only tested while the bloom branch did nothing:
\* it clears as soon as the mood is above -0.6
WitherStepOneThreshold(was, mood) ==
    IF ~was /\ mood < WitherOn THEN [latch |-> TRUE, fire |-> TRUE]
    ELSE IF was /\ mood > WitherOn THEN [latch |-> FALSE, fire |-> FALSE]
    ELSE [latch |-> was, fire |-> FALSE]

\* the if / else-if on wasWithering (wither variant only)
WitherStep(was, mood) ==
    IF ~was /\ mood < WitherOn THEN [latch |-> TRUE, fire |-> TRUE]
    ELSE IF was /\ mood > WitherOff THEN [latch |-> FALSE, fire |-> FALSE]
    ELSE [latch |-> was, fire |-> FALSE]

\* a sketch that runs the wither detector in both variants
WitherDetectorEverywhere(var, was, mood) == WitherStep(was, mood)

\* the wither detector of the running sketch: the style variant has no
\* wasWithering and no second if / else-if
WitherDetector(var, was, mood) ==
    IF var = "wither" THEN WitherStep(was, mood)
    ELSE [latch |-> was, fire |-> FALSE]

\* if (onTreeEvent) onTreeEvent(event): the calls one draw makes, in order
SinkCalls(sink, bloomFire, witherFire) ==
    IF sink
    THEN (IF bloomFire THEN <<"bloom">> ELSE <<>>) \o
         (IF witherFire THEN <<"wither">> ELSE <<>>)
    ELSE <<>>

(***************************************************************************)
(* Skeleton builder                                                        *)
(*                                                                         *)
(* A Branch is a record with the fields of the code's interface; children  *)
(* is a sequence of Branches.  A build consumes the random source in the   *)
(* order of the p.random calls of createBranch; the source is a stream,    *)
(* named by its seed.  The variable rootBranch keeps what determines the   *)
(* built object: the root's len and thick and the seed of the stream the   *)
(* build consumed.  Skeleton(rootBranch) is the object itself, the tree    *)
(* createBranch(0) returns with the root's len and thick set.              *)
(***************************************************************************)

\* p.random(low, high) for the draw u in [0, 1) the random source returns
random(u, low, high) == low + RoundDiv(u * (high - low), Unit)

\* the k-th value (from 0) of the random stream with seed [a, b], in [0, 1)
Stream(seed, k) == (seed.a + k * seed.b) % Unit

\* p.PI / 5.0
BaseAngle == 628

\* a builder that also gives children to the branches of depth MAX_DEPTH
HasChildrenInclusive(depth) == depth <= MAX_DEPTH

\* if (depth < MAX_DEPTH) in createBranch
HasChildren(depth) == depth < MAX_DEPTH

\* the number of p.random calls one createBranch(depth) makes, its
\* descendants' included: three in the object literal and, per child, the
\* child's own and one for the angle variation
RECURSIVE Calls(_)
Calls(depth) ==
    3 + (IF HasChildren(depth) THEN 2 * (Calls(depth + 1) + 1) ELSE 0)

\* createBranch(depth) when the next value of the stream is its k-th.  The
\* object literal draws noiseThreshold, hasFlower and lenMult; the loop
\* builds child i, then draws its angle variation on top of
\* p.map(i, 0, 1, -baseAngle, baseAngle).
RECURSIVE createBranch(_, _, _)
createBranch(seed, depth, k) ==
    LET own == [len |-> 0,
                thick |-> 0,
                depth |-> depth,
                angleOffset |-> 0,
                children |-> <<>>,
                noiseThreshold |-> random(Stream(seed, k), (5 * Unit) \div 100,
                                          (95 * Unit) \div 100),
                hasFlower |-> random(Stream(seed, k + 1), 0, Unit) > Unit \div 2,
                lenMult |-> (72 * Unit) \div 100
                            + random(Stream(seed, k + 2), 0 - (8 * Unit) \div 100,
                                     (8 * Unit) \div 100)]
        child(i) ==
            [createBranch(seed, depth + 1, k + 3 + i * (Calls(depth + 1) + 1))
               EXCEPT !.angleOffset =
                          (IF i = 0 THEN 0 - BaseAngle ELSE BaseAngle)
                          + random(Stream(seed, k + 3 + i * (Calls(depth + 1) + 1)
                                                + Calls(depth + 1)),
                                   0 - (15 * Unit) \div 100, (15 * Unit) \div 100),
                      !.thick = 0]
    IN  IF HasChildren(depth)
        THEN [own EXCEPT !.children = <<child(0), child(1)>>]
        ELSE own

\* a builder that sizes every trunk as on a wide canvas
buildTreeSkeletonOneClass(w, h, seed) ==
    [len |-> h * 26 * (Unit \div 100), thick |-> 28 * Unit, seed |-> seed,
     built |-> TRUE]

\* buildTreeSkeleton for canvas w x h and the stream seed: the trunk sizing,
\* rootBranch = createBranch(0), rootBranch.len and rootBranch.thick
buildTreeSkeleton(w, h, seed) ==
    LET isMobile == w < 600
        trunkLenRatio == IF isMobile THEN 22 ELSE 26
        trunkLen == h * trunkLenRatio * (Unit \div 100)
        trunkThick == IF w < 600 THEN 18 * Unit ELSE 28 * Unit
    IN  [len |-> trunkLen, thick |-> trunkThick, seed |-> seed, built |-> TRUE]

\* the Branch object rootBranch refers to after a build
Skeleton(root) ==
    [createBranch(root.seed, 0, 0) EXCEPT !.len = root.len,
                                          !.thick = root.thick]

\* the factors of renderBranch
bloomFactorOf(mood) == map(mood, 0, Unit, 0, Unit)

witherFactorOf(mood) == map(mood, 0 - (2 * Unit) \div 10, 0 - Unit, 0, Unit)

(***************************************************************************)
(* Renderer: what one renderBranch pass draws.  A pass is the sequence of  *)
(* its renderBranch calls in call order, each a record of the branch given *)
(* (depth, noiseThreshold, hasFlower), the len and thick drawn, whether    *)
(* the call went on to the children, whether drawAttachedFoliage was       *)
(* called (foliage) and drew a flower (flower), and whether the branch     *)
(* evaluated the spawn noise (site).                                       *)
(***************************************************************************)

\* a renderer that stops at the depth cap only
RenderStopsAtCapOnly(branch, len) == branch.depth >= MAX_DEPTH

\* if (branch.depth >= MAX_DEPTH || len < 4) return
RenderStops(branch, len) == branch.depth >= MAX_DEPTH \/ len < 4 * Unit

\* a foliage band one level too wide
InFoliageBandWide(branch) == branch.depth > MAX_DEPTH - 5

\* if (branch.depth > MAX_DEPTH - 4)
InFoliageBand(branch) == branch.depth > MAX_DEPTH - 4

\* an attachment test that ignores the baked threshold
isAttachedAlways(branch, bloomFactor) == bloomFactor > 0

\* const isAttached = bloomFactor > branch.noiseThreshold
isAttached(branch, bloomFactor) == bloomFactor > branch.noiseThreshold

\* if (hasFlower && bloomFactor > 0.25) in drawAttachedFoliage
FlowerDrawn(hasFlower, bloomFactor) ==
    hasFlower /\ bloomFactor > (25 * Unit) \div 100

RECURSIVE renderBranch(_, _, _, _)
RECURSIVE renderChildren(_, _, _, _, _)
\* renderBranch(branch, len, thick, ...) with the smoothed mood of the frame
renderBranch(branch, len, thick, mood) ==
    LET bloomFactor == bloomFactorOf(mood)
        band == InFoliageBand(branch)
        attached == band /\ isAttached(branch, bloomFactor)
        goesOn == ~RenderStops(branch, len)
        call == [depth |-> branch.depth,
                 noiseThreshold |-> branch.noiseThreshold,
                 hasFlower |-> branch.hasFlower,
                 len |-> len,
                 thick |-> thick,
                 goesOn |-> goesOn,
                 foliage |-> attached,
                 flower |-> attached /\ FlowerDrawn(branch.hasFlower, bloomFactor),
                 site |-> band]
    IN  IF goesOn
        THEN <<call>> \o renderChildren(branch.children, 1, len, thick, mood)
        ELSE <<call>>

\* for (const child of branch.children) renderBranch(child, len * child.lenMult,
\* thick * 0.7, ...), from the i-th child on
renderChildren(kids, i, len, thick, mood) ==
    IF i > Len(kids) THEN <<>>
    ELSE renderBranch(kids[i], RoundDiv(len * kids[i].lenMult, Unit),
                      RoundDiv(thick * 7, 10), mood)
         \o renderChildren(kids, i + 1, len, thick, mood)

\* if (rootBranch) renderBranch(rootBranch, rootBranch.len, rootBranch.thick, ...)
RenderPass(root, mood) ==
    IF root.built
    THEN renderBranch(Skeleton(root), root.len, root.thick, mood)
    ELSE <<>>

\* the number of calls of a pass that evaluate the spawn noise: the branches
\* that can spawn a particle in the frame (which of them do does not depend on
\* the mood, so the pass is taken at mood 0)
SpawnSites(root) ==
    Len(SelectSeq(RenderPass(root, 0), LAMBDA call : call.site))

\* a draw call that bakes the length it drew for the first level into the root
rootAfterDrawBakesLen(root) ==
    [root EXCEPT !.len = RoundDiv(root.len * 72, 100)]

\* the skeleton after a draw call: renderBranch reads the Branch objects and
\* assigns none of their fields, and p.draw does not assign rootBranch
rootAfterDraw(root) == root

(***************************************************************************)
(* Particle store                                                          *)
(*                                                                         *)
(* A particle is a record.  id is the serial of its push (not a field of   *)
(* the code: it names the particle across frames), born is the style tag   *)
(* of the frame that pushed it (not a field either: p.draw hands it to the  *)
(* spawn with the draws, for the record of what was drawn).  Colour and    *)
(* the three sway fields are not kept: the colour follows the type, and    *)
(* the sway force enters updateParticles through the frame's lateral       *)
(* force.  A draw record r holds the branch tip (x, y) and the values in   *)
(* [0, 1) that the calls of p.random return for one spawn.                 *)
(***************************************************************************)

TWO_PI == 6283

\* spawnFallingParticle(x, y) of the style variant
spawnFallingStyle(ps, id, r, wind, w, h) ==
    IF r.x < 0 - 50 * Unit \/ r.x > (w + 50) * Unit \/ r.y > h * Unit THEN ps
    ELSE Append(ps,
           [id |-> id,
            x |-> r.x, y |-> r.y,
            vx |-> random(r.uvx, 0 - Unit \div 2, Unit \div 2) + RoundDiv(wind * 25, 10),
            vy |-> random(r.uvy, (15 * Unit) \div 10, (35 * Unit) \div 10),
            type |-> IF r.uflower > Unit \div 2 THEN "flower" ELSE "leaf",
            life |-> 255 * Unit,
            isDead |-> FALSE,
            isGrounded |-> FALSE,
            groundY |-> h * Unit - random(r.uground, 0, 15 * Unit),
            angle |-> random(r.uangle, 0, TWO_PI),
            angleVel |-> random(r.uangleVel, 0 - (15 * Unit) \div 100, (15 * Unit) \div 100),
            flip |-> random(r.uflip, 0, TWO_PI),
            flipSpeed |-> random(r.uflipSpeed, (5 * Unit) \div 100, (2 * Unit) \div 10),
            size |-> random(r.usize, 7 * Unit, 12 * Unit),
            born |-> r.born])

\* spawnFallingParticle(x, y, isDead) of the wither variant
spawnFallingWither(ps, id, r, wind, w, h, isDead) ==
    IF r.x < 0 - 50 * Unit \/ r.x > (w + 50) * Unit \/ r.y > h * Unit THEN ps
    ELSE Append(ps,
           [id |-> id,
            x |-> r.x, y |-> r.y,
            vx |-> IF isDead THEN random(r.uvx, 0 - Unit, Unit) + wind
                   ELSE random(r.uvx, 0 - Unit \div 2, Unit \div 2) + RoundDiv(wind * 25, 10),
            vy |-> IF isDead THEN random(r.uvy, Unit, 3 * Unit)
                   ELSE random(r.uvy, 0, Unit \div 2),
            type |-> IF ~isDead /\ r.uflower > Unit \div 2 THEN "flower" ELSE "leaf",
            life |-> 255 * Unit,
            isDead |-> isDead,
            isGrounded |-> FALSE,
            groundY |-> 0,
            angle |-> random(r.uangle, 0, TWO_PI),
            angleVel |-> random(r.uangleVel, 0 - (15 * Unit) \div 100, (15 * Unit) \div 100),
            flip |-> random(r.uflip, 0, TWO_PI),
            flipSpeed |-> random(r.uflipSpeed, (5 * Unit) \div 100, (2 * Unit) \div 10),
            size |-> random(r.usize, 7 * Unit, 12 * Unit),
            born |-> r.born])

\* one spawnFallingParticle call on the store ps
spawnFalling(ps, id, r, wind, w, h, var, isDead) ==
    IF var = "style" THEN spawnFallingStyle(ps, id, r, wind, w, h)
    ELSE spawnFallingWither(ps, id, r, wind, w, h, isDead)

\* one renderBranch pass over the skeleton, as far as the store goes: n of the
\* eligible branches hit their spawn window, in the order they are rendered.
\* All n calls take the draws r, so all of them push or none does.
SpawnAll(ps, id, n, r, wind, w, h, var, isDead) ==
    IF n = 0 \/ spawnFalling(<<>>, id, r, wind, w, h, var, isDead) = <<>> THEN ps
    ELSE ps \o [i \in 1..n |->
                  spawnFalling(<<>>, id + i - 1, r, wind, w, h, var, isDead)[1]]

\* a dead-leaf branch that is open from wither factor 0 on
DeadGateFromZero(var, mood) == var = "wither" /\ witherFactorOf(mood) >= 0

\* if (witherFactor > 0.05): the spawn branch for dead leaves, which only the
\* wither variant has
DeadGate(var, mood) ==
    var = "wither" /\ witherFactorOf(mood) > (5 * Unit) \div 100

\* a live branch with the style variant's threshold in both variants
LiveGateOneThreshold(var, mood) == bloomFactorOf(mood) > (3 * Unit) \div 10

\* if (bloomFactor > 0.3) of the style variant, if (bloomFactor > 0.5) of the
\* wither variant: the spawn branch for live particles.  The two branches
\* are separate if statements, tested one after the other for each branch
\* rendered.
LiveGate(var, mood) ==
    IF var = "style" THEN bloomFactorOf(mood) > (3 * Unit) \div 10
    ELSE bloomFactorOf(mood) > Unit \div 2

\* no capacity trim
TrimNothing(ps) == ps

\* a capacity trim that drops from the wrong end: the newest go
TrimNewest(ps) ==
    IF Len(ps) > MAX_PARTICLES THEN SubSeq(ps, 1, MAX_PARTICLES) ELSE ps

\* a capacity trim that already fires at 300 particles and keeps 299
TrimEager(ps) ==
    IF Len(ps) >= MAX_PARTICLES
    THEN SubSeq(ps, Len(ps) - MAX_PARTICLES + 2, Len(ps))
    ELSE ps

\* the capacity trim at the head of updateParticles (style variant)
Trim(ps) ==
    IF Len(ps) > MAX_PARTICLES
    THEN SubSeq(ps, Len(ps) - MAX_PARTICLES + 1, Len(ps))
    ELSE ps

\* a loop body that spins and flips the particle outside the isGrounded test
StepStyleSpinsGrounded(part, windForce, lateral) ==
    LET ax == RoundDiv(windForce * 25, 100) + lateral
        ay == Unit \div 10
        vx == RoundDiv((part.vx + ax) * 94, 100)
        vy == RoundDiv((part.vy + ay) * 94, 100)
        y1 == part.y + vy
        hit == y1 >= part.groundY
    IN  IF part.isGrounded
        THEN [part EXCEPT !.angle = part.angle + part.angleVel,
                          !.flip = part.flip + part.flipSpeed]
        ELSE [part EXCEPT !.x = part.x + vx,
                          !.y = IF hit THEN part.groundY ELSE y1,
                          !.vx = IF hit THEN 0 ELSE vx,
                          !.vy = IF hit THEN 0 ELSE vy,
                          !.angle = part.angle + part.angleVel,
                          !.flip = part.flip + part.flipSpeed,
                          !.isGrounded = hit]

\* the body of the style variant's loop for one particle: falling physics and
\* grounding (the render part draws and changes nothing)
StepStyle(part, windForce, lateral) ==
    IF part.isGrounded THEN part
    ELSE LET ax == RoundDiv(windForce * 25, 100) + lateral
             ay == Unit \div 10
             vx == RoundDiv((part.vx + ax) * 94, 100)
             vy == RoundDiv((part.vy + ay) * 94, 100)
             y1 == part.y + vy
             hit == y1 >= part.groundY
         IN  [part EXCEPT !.x = part.x + vx,
                          !.y = IF hit THEN part.groundY ELSE y1,
                          !.vx = IF hit THEN 0 ELSE vx,
                          !.vy = IF hit THEN 0 ELSE vy,
                          !.angle = part.angle + part.angleVel,
                          !.flip = part.flip + part.flipSpeed,
                          !.isGrounded = hit]

\* the particles the loop of updateParticles visits (those the capacity trim
\* kept), each as the loop body leaves it
movedStyle(ps, windForce, lateral) ==
    LET kept == Trim(ps)
    IN  [i \in 1..Len(kept) |-> StepStyle(kept[i], windForce, lateral)]

\* a bounds test that spares the particles lying on the ground
OutOfBoundsFallingOnly(part, w) ==
    ~part.isGrounded /\ (part.x < 0 - 100 * Unit \/ part.x > (w + 100) * Unit)

\* if (part.pos.x < -100 || part.pos.x > p.width + 100) particles.splice(i, 1)
OutOfBounds(part, w) == part.x < 0 - 100 * Unit \/ part.x > (w + 100) * Unit

\* updateParticles(windForce, currentStyle) of the style variant.  The loop
\* runs from the last index down and splices the particle it stands on, so
\* every particle is visited once and the survivors keep their order.
updateParticlesStyle(ps, windForce, lateral, w) ==
    SelectSeq(movedStyle(ps, windForce, lateral),
              LAMBDA part : ~OutOfBounds(part, w))

\* the body of the wither variant's loop for one particle
StepWither(part, windForce, lateral) ==
    LET ax == RoundDiv(windForce * 25, 100) + lateral
        ay == IF part.isDead THEN (12 * Unit) \div 100 ELSE (25 * Unit) \div 1000
        drag == IF part.isDead THEN 96 ELSE 94
        vx == RoundDiv((part.vx + ax) * drag, 100)
        vy == RoundDiv((part.vy + ay) * drag, 100)
    IN  [part EXCEPT !.x = part.x + vx,
                     !.y = part.y + vy,
                     !.vx = vx,
                     !.vy = vy,
                     !.angle = part.angle + part.angleVel,
                     !.flip = part.flip + part.flipSpeed,
                     !.life = part.life - (IF part.isDead THEN 3 * Unit ELSE (16 * Unit) \div 10)]

\* the particles of the store, each as the loop body leaves it
movedWither(ps, windForce, lateral) ==
    [i \in 1..Len(ps) |-> StepWither(ps[i], windForce, lateral)]

\* a removal test that lets a particle live one call longer: life < 0
ExpiredBelowZero(part, h) == part.life < 0 \/ part.y > (h + 50) * Unit

\* if (part.life <= 0 || part.pos.y > p.height + 50) particles.splice(i, 1)
Expired(part, h) == part.life <= 0 \/ part.y > (h + 50) * Unit

\* updateParticles(windForce) of the wither variant
updateParticlesWither(ps, windForce, lateral, h) ==
    SelectSeq(movedWither(ps, windForce, lateral),
              LAMBDA part : ~Expired(part, h))

(***************************************************************************)
(* Flower shapes and the render part of updateParticles                    *)
(*                                                                         *)
(* A draw is a record: the shape drawn, the rotation it is drawn under in  *)
(* fifths of a full turn (p.TWO_PI / 5), the alpha of the fill in force    *)
(* and its extent (len), both in thousandths.                              *)
(***************************************************************************)

\* the style tags of FlowerStyle
StyleTags == {"peach", "sakura", "delonix"}

\* a peach branch that forgets the rotation: every petal at the same angle
drawFlowerShapePeachUnturned(style, size) ==
    IF style \in {"sakura", "delonix"}
    THEN [i \in 1..6 |->
            IF i <= 5
            THEN [shape |-> "petal", rot |-> i - 1, alpha |-> 240 * Unit,
                  len |-> RoundDiv(size * (IF style = "sakura" THEN 85 ELSE 95), 100)]
            ELSE [shape |-> "centre", rot |-> 0,
                  alpha |-> IF style = "sakura" THEN 220 * Unit ELSE 150 * Unit,
                  len |-> RoundDiv(size * (IF style = "sakura" THEN 20 ELSE 15), 100)]]
    ELSE [i \in 1..6 |->
            IF i <= 5
            THEN [shape |-> "petal", rot |-> 0, alpha |-> 240 * Unit,
                  len |-> RoundDiv(size * 6, 10)]
            ELSE [shape |-> "centre", rot |-> 0, alpha |-> 255 * Unit,
                  len |-> RoundDiv(size * 3, 10)]]

\* drawFlowerShape(style, size): the draws it issues, in order.  'sakura' and
\* 'delonix' draw petal i (from 0) inside push / rotate(TWO_PI/5 * i) / pop
\* and the centre unrotated; 'peach' and the default branch rotate by
\* TWO_PI/5 before each ellipse without push / pop, so the rotations add up
\* and the centre circle is drawn under the full turn they leave.  The petals
\* are filled with COL_FLOWER_PINK (alpha 240), the centre with a literal
\* colour.
drawFlowerShape(style, size) ==
    IF style \in {"sakura", "delonix"}
    THEN [i \in 1..6 |->
            IF i <= 5
            THEN [shape |-> "petal", rot |-> i - 1, alpha |-> 240 * Unit,
                  len |-> RoundDiv(size * (IF style = "sakura" THEN 85 ELSE 95), 100)]
            ELSE [shape |-> "centre", rot |-> 0,
                  alpha |-> IF style = "sakura" THEN 220 * Unit ELSE 150 * Unit,
                  len |-> RoundDiv(size * (IF style = "sakura" THEN 20 ELSE 15), 100)]]
    ELSE [i \in 1..6 |->
            IF i <= 5
            THEN [shape |-> "petal", rot |-> i, alpha |-> 240 * Unit,
                  len |-> RoundDiv(size * 6, 10)]
            ELSE [shape |-> "centre", rot |-> 5, alpha |-> 255 * Unit,
                  len |-> RoundDiv(size * 3, 10)]]

\* Math.abs(Math.cos(x)), by Bhaskara's rational approximation of the cosine
\* on [-pi/2, pi/2] (exact at 0, pi/3 and pi/2, within 0.002 elsewhere)
AbsCos(x) ==
    LET pi == TWO_PI \div 2
        t == x % pi
        u == IF 2 * t > pi THEN pi - t ELSE t
    IN  RoundDiv(Unit * ((pi * pi - 4 * u * u) \div 100), (pi * pi + u * u) \div 100)

\* a draw call that keeps the style it read first
StyleOfFirstFrame(ref, last) == IF last = "none" THEN ref ELSE last

\* const flowerStyle = getFlowerStyle() at the head of p.draw (ref: the
\* content of flowerStyleRef, last: the tag of the call before)
StyleOfFrame(ref, last) == ref

\* the render part of the style variant's loop body for a particle the
\* physics part has left as part: the vertical scale, the alpha given to the
\* particle's colour c, and the draws (a flower by drawFlowerShape with the
\* style of the frame, whose fills do not use c; a leaf as one ellipse
\* filled with c)
renderStyle(part, currentStyle) ==
    LET renderScale == IF part.isGrounded THEN (2 * Unit) \div 10
                       ELSE AbsCos(part.flip)
        cAlpha == IF part.isGrounded THEN 200 * Unit ELSE 255 * Unit
    IN  [id |-> part.id,
         type |-> part.type,
         isGrounded |-> part.isGrounded,
         angle |-> part.angle,
         scaleY |-> Max(Unit \div 10, renderScale),
         born |-> part.born,
         style |-> IF part.type = "flower" THEN currentStyle ELSE "none",
         draws |-> IF part.type = "flower"
                   THEN drawFlowerShape(currentStyle, part.size)
                   ELSE <<[shape |-> "leaf", rot |-> 0, alpha |-> cAlpha,
                           len |-> part.size]>>]

\* the renders of one updateParticles call of the style variant: the loop
\* runs from the last particle down
renderedStyle(moved, currentStyle) ==
    [i \in 1..Len(moved) |-> renderStyle(moved[Len(moved) + 1 - i], currentStyle)]

\* the render part of the wither variant's loop body: every particle is one
\* ellipse filled with its colour at alpha life
renderWither(part) ==
    [id |-> part.id,
     type |-> part.type,
     isGrounded |-> FALSE,
     angle |-> part.angle,
     scaleY |-> AbsCos(part.flip),
     born |-> part.born,
     style |-> "none",
     draws |-> <<[shape |-> "leaf", rot |-> 0, alpha |-> part.life,
                  len |-> part.size]>>]

renderedWither(moved) ==
    [i \in 1..Len(moved) |-> renderWither(moved[Len(moved) + 1 - i])]

(***************************************************************************)
(* Handlers                                                                *)
(***************************************************************************)

\* createSketch(...)(p): the closure's initial bindings
Created ==
    /\ variant \in {"style", "wither"}
    /\ hasSink \in BOOLEAN
    /\ phase = "created"
    /\ width = 0
    /\ height = 0
    /\ treeState = [mood |-> 0, windForce |-> 0]
    /\ currentMood = 0
    /\ currentWind = 0
    /\ wasBlooming = FALSE
    /\ wasWithering = FALSE
    /\ particles = <<>>
    /\ rootBranch = NoBranch
    /\ fed = 0
    /\ sunk = <<>>
    /\ bloomed = FALSE
    /\ trough = "none"
    /\ spawned = 0
    /\ peak = 0
    /\ culled = 0
    /\ gone = <<>>
    /\ rebuilds = 0
    /\ frameStyle = "none"
    /\ drawn = <<>>
    /\ seen = [mood |-> 0, windForce |-> 0]

\* the days a run can see: day 0 stands for the empty date string of the
\* initial stats, day 1 for a day before the App was loaded
MaxDay == 3

Dates == 0..MaxDay

\* the landing state once the models have loaded and a camera request has
\* been granted
Landed ==
    /\ modelsLoaded = TRUE
    /\ loading = FALSE
    /\ permissionError = FALSE
    /\ stream = TRUE
    /\ asking = FALSE

\* the statistics after the Initialize Stats effect found storage empty on
\* day 2: {blooms: 0, date: today}, stored as well
Counting ==
    /\ today = 2
    /\ stats = [blooms |-> 0, date |-> 2]
    /\ stored = [present |-> TRUE, blooms |-> 0, date |-> 2]
    /\ restored = [done |-> TRUE, blooms |-> 0, date |-> 0]
    /\ tally = [d \in Dates |-> 0]

\* the main view is up with the default style, SketchContainer has just
\* created its sketch, the analysis loop has not started
MainViewUp ==
    /\ flowerStyle = "peach"
    /\ hasStarted = TRUE
    /\ isLooping = FALSE
    /\ scheduled = 0
    /\ sketches = 1
    /\ appMounted = TRUE
    /\ awaiting = FALSE

\* the host around a sketch that SketchContainer has just created
Hosted == MainViewUp /\ Landed /\ Counting

\* new p5(createSketch(...), container): a sketch with the bindings of
\* Created takes the place of whatever was there
NewSketch ==
    /\ phase' = "created"
    /\ width' = 0
    /\ height' = 0
    /\ currentMood' = 0
    /\ currentWind' = 0
    /\ wasBlooming' = FALSE
    /\ wasWithering' = FALSE
    /\ particles' = <<>>
    /\ rootBranch' = NoBranch
    /\ sunk' = <<>>
    /\ bloomed' = FALSE
    /\ trough' = "none"
    /\ spawned' = 0
    /\ peak' = 0
    /\ culled' = 0
    /\ gone' = <<>>
    /\ rebuilds' = 0
    /\ frameStyle' = "none"
    /\ drawn' = <<>>
    /\ seen' = [mood |-> 0, windForce |-> 0]

\* no scripted state source: the snapshot is whatever predictLoop wrote last
Init == Created /\ Hosted /\ plan = <<>>

\* the canvas sizes (p.windowWidth, p.windowHeight) the specifications use: a
\* wide and a narrow window, one just under the 600 split, a very low one, and
\* one so low that its trunk (18.2) is too short for a branch of depth 6
Canvases == {<<800, 600>>, <<500, 500>>, <<599, 480>>, <<600, 40>>, <<600, 70>>}

\* the random streams they use: constant 0.5, constant 0, constant 0.999, and
\* one that changes from call to call
Streams ==
    {[a |-> Unit \div 2, b |-> 0], [a |-> 0, b |-> 0], [a |-> Unit - 1, b |-> 0],
     [a |-> 137, b |-> 379]}

\* the skeletons a build can leave for them
BuiltSkeletons ==
    {buildTreeSkeleton(s[1], s[2], u) : s \in Canvases, u \in Streams}

\* SpawnSites of each of them, computed once
SpawnSitesOf == [root \in BuiltSkeletons |-> SpawnSites(root)]

\* builds explored between two draw calls
MaxRebuilds == 3

\* p.setup: createCanvas(windowWidth, windowHeight), then buildTreeSkeleton
Setup(sizes, seeds) ==
    /\ phase = "created"
    /\ \E s \in sizes, u \in seeds :
          /\ width' = s[1]
          /\ height' = s[2]
          /\ rootBranch' = buildTreeSkeleton(s[1], s[2], u)
    /\ phase' = "running"
    /\ rebuilds' = rebuilds + 1
    /\ UNCHANGED <<variant, hasSink, treeState, plan, currentMood, currentWind,
                   wasBlooming, wasWithering, particles, fed, sunk,
                   bloomed, trough, spawned, peak, culled, gone, frameStyle,
                   drawn, seen, hostVars, statVars>>

\* a resize handler that also empties the particle store
WindowResizedClearsStore(sizes, seeds) ==
    /\ phase = "running"
    /\ rebuilds < MaxRebuilds
    /\ \E s \in sizes, u \in seeds :
          /\ width' = s[1]
          /\ height' = s[2]
          /\ rootBranch' = buildTreeSkeleton(s[1], s[2], u)
    /\ rebuilds' = rebuilds + 1
    /\ particles' = <<>>
    /\ UNCHANGED <<variant, hasSink, phase, treeState, plan, currentMood,
                   currentWind, wasBlooming, wasWithering, fed,
                   sunk, bloomed, trough, spawned, peak, culled, gone,
                   frameStyle, drawn, seen, hostVars, statVars>>

\* p.windowResized: resizeCanvas(windowWidth, windowHeight), then buildTreeSkeleton
WindowResized(sizes, seeds) ==
    /\ phase = "running"
    /\ rebuilds < MaxRebuilds
    /\ \E s \in sizes, u \in seeds :
          /\ width' = s[1]
          /\ height' = s[2]
          /\ rootBranch' = buildTreeSkeleton(s[1], s[2], u)
    /\ rebuilds' = rebuilds + 1
    /\ UNCHANGED <<variant, hasSink, phase, treeState, plan, currentMood,
                   currentWind, wasBlooming, wasWithering, particles, fed,
                   sunk, bloomed, trough, spawned, peak, culled, gone,
                   frameStyle, drawn, seen, hostVars, statVars>>

\* a producer that stores the mood and leaves the wind of the snapshot
WriteSnapshotMoodOnly(old, result) == [old EXCEPT !.mood = result.moodScore]

\* treeStateRef.current = {mood: moodScore, windForce: movementScore}: the
\* ref is given a new object (old: the object it held)
WriteSnapshot(old, result) ==
    [mood |-> result.moodScore, windForce |-> result.movementScore]

\* predictLoop, as far as the snapshot goes: analyzeFrame returns a result
\* and the snapshot is replaced
PredictLoop(moods, winds) ==
    /\ \E m \in moods, w \in winds :
          treeState' = WriteSnapshot(treeState, [moodScore |-> m, movementScore |-> w])
    /\ UNCHANGED <<variant, hasSink, phase, width, height, plan, currentMood,
                   currentWind, wasBlooming, wasWithering, particles, rootBranch,
                   fed, sunk, bloomed, trough, spawned, peak, culled, gone,
                   rebuilds, frameStyle, drawn, seen, hostVars, statVars>>

\* the record of the smoothed mood since the last 'bloom' event: "none" (no
\* frame at or below 0.6 yet), "mid" (down to [0.2, 0.6], never below 0.2) or
\* "low" (some frame below 0.2)
TroughAfter(tr, calls, mood) ==
    IF Len(calls) > 0 /\ calls[1] = "bloom" THEN "none"
    ELSE IF tr = "low" \/ mood < (2 * Unit) \div 10 THEN "low"
    ELSE IF tr = "mid" \/ mood <= (6 * Unit) \div 10 THEN "mid"
    ELSE "none"

\* p.draw for the snapshot st that getTreeState returns: smoothing, the event
\* logic, the renderBranch pass (n eligible branches hit the spawn window of
\* every spawn branch that is open, each spawn with the draws r) and
\* updateParticles (lateral: the turbulence and sway force of the frame)
DrawWith(st, n, r, lateral) ==
    LET mood == SmoothMood(currentMood, st.mood)
        wind == SmoothWind(currentWind, st.windForce)
        b == BloomStep(wasBlooming, mood)
        wi == WitherDetector(variant, wasWithering, mood)
        calls == SinkCalls(hasSink, b.fire, wi.fire)
        style == IF variant = "style" THEN StyleOfFrame(flowerStyle, frameStyle)
                 ELSE "none"
        dead == IF DeadGate(variant, mood) THEN n ELSE 0
        live == IF LiveGate(variant, mood) THEN n ELSE 0
        rb == [born |-> style] @@ r
        shed == SpawnAll(particles, spawned + 1, dead, rb, wind, width, height,
                         variant, TRUE)
        grown == SpawnAll(shed, spawned + 1 + Len(shed) - Len(particles), live,
                          rb, wind, width, height, variant, FALSE)
    IN  /\ phase = "running"
        /\ n <= (IF n = 0 THEN 0 ELSE SpawnSitesOf[rootBranch])
        /\ currentMood' = mood
        /\ currentWind' = wind
        /\ wasBlooming' = b.latch
        /\ wasWithering' = wi.latch
        /\ sunk' = calls
        /\ bloomed' = (bloomed \/ (Len(calls) > 0 /\ calls[1] = "bloom"))
        /\ trough' = TroughAfter(trough, calls, mood)
        /\ peak' = Len(grown)
        /\ spawned' = spawned + Len(grown) - Len(particles)
        /\ particles' = IF variant = "style"
                        THEN updateParticlesStyle(grown, wind, lateral, width)
                        ELSE updateParticlesWither(grown, wind, lateral, height)
        /\ culled' = IF variant = "style"
                     THEN Len(Trim(grown)) - Len(particles')
                     ELSE Len(grown) - Len(particles')
        /\ gone' = IF variant = "style"
                   THEN SelectSeq(movedStyle(grown, wind, lateral),
                                  LAMBDA part : OutOfBounds(part, width))
                   ELSE SelectSeq(movedWither(grown, wind, lateral),
                                  LAMBDA part : Expired(part, height))
        /\ rebuilds' = 0
        /\ rootBranch' = rootAfterDraw(rootBranch)
        /\ frameStyle' = style
        /\ drawn' = IF variant = "style"
                    THEN renderedStyle(movedStyle(grown, wind, lateral), style)
                    ELSE renderedWither(movedWither(grown, wind, lateral))
        /\ seen' = st
        /\ UNCHANGED <<variant, hasSink, phase, width, height, hostVars>>

(***************************************************************************)
(* Spec: the detector under a free state source.  The producer may write   *)
(* any snapshot any number of times between two frames; the frames         *)
(* explored are those in which no branch hits its spawn window.            *)
(***************************************************************************)

MoodInputs == {0 - Unit, Unit}

WindInputs == {0}

CanvasSizes == {<<800, 600>>}

\* the stream that returns 0.5 at every call
BuildSeeds == {[a |-> Unit \div 2, b |-> 0]}

\* the draws of a spawn nobody makes
NoDraws ==
    [x |-> 0, y |-> 0, uvx |-> 0, uvy |-> 0, uflower |-> 0, uground |-> 0,
     uangle |-> 0, uangleVel |-> 0, uflip |-> 0, uflipSpeed |-> 0, usize |-> 0]

SetupStep == Setup(CanvasSizes, BuildSeeds)

ProducerStep == PredictLoop(MoodInputs, WindInputs)

DrawStep ==
    /\ DrawWith(treeState, 0, NoDraws, 0)
    /\ UNCHANGED statVars
    /\ UNCHANGED <<treeState, plan, fed>>

Next == SetupStep \/ ProducerStep \/ DrawStep

Spec == Init /\ [][Next]_vars

(***************************************************************************)
(* Claims about the event detector, checked under Spec                     *)
(***************************************************************************)

\* the events of a sequence of sink calls
Events(calls) == {calls[i] : i \in 1..Len(calls)}

\* C1: in every frame the bloom latch goes from clear to set, and 'bloom'
\* reaches a supplied sink, if and only if the latch was clear at the start of
\* the frame and the smoothed mood after the frame's smoothing update is above
\* 0.6; the latch goes from set to clear only in a frame whose smoothed mood is
\* below 0.2, and a set latch stays set for every smoothed mood in [0.2, 0.6].
C1_BloomIffClearAndAbove ==
    [][DrawStep =>
         /\ (~wasBlooming /\ wasBlooming')
               <=> (~wasBlooming /\ currentMood' > 600)
         /\ hasSink => (("bloom" \in Events(sunk'))
                          <=> (~wasBlooming /\ currentMood' > 600))
         /\ (wasBlooming /\ ~wasBlooming') => currentMood' < 200
         /\ (wasBlooming /\ currentMood' >= 200 /\ currentMood' <= 600)
               => wasBlooming']_vars

\* a 'bloom' was raised, and later the latch was cleared by a mood below 0.2
C1_Witness ==
    /\ bloomed
    /\ ~wasBlooming
    /\ trough = "low"
    /\ currentMood < 200

\* C2: with a sink, the first frame whose smoothed mood is above 0.6 raises
\* 'bloom', and a later 'bloom' is raised only if some frame since the last
\* 'bloom' had a smoothed mood below 0.2: a rise above 0.6 that is repeated
\* without first falling below 0.2 raises nothing.
C2_BloomOnlyAfterDip ==
    [][DrawStep =>
         /\ ("bloom" \in Events(sunk')) => (~bloomed \/ trough = "low")
         /\ (hasSink /\ ~bloomed /\ currentMood' > 600)
               => "bloom" \in Events(sunk')]_vars

\* after a 'bloom' the mood sagged into [0.2, 0.6], never below 0.2, and is
\* above 0.6 again in a frame that raised nothing
C2_Witness ==
    /\ bloomed
    /\ trough = "mid"
    /\ currentMood > 600
    /\ sunk = <<>>

\* C3: the sink is called exactly once for each clear-to-set transition of a
\* latch made in the frame and for nothing else (not when a latch clears, not
\* when it keeps its value); without a sink nothing is called, and with or
\* without a sink the latches take the value the thresholds give.
C3_OneCallPerLatchSet ==
    [][DrawStep =>
         /\ sunk' = IF hasSink
                    THEN (IF ~wasBlooming /\ wasBlooming' THEN <<"bloom">> ELSE <<>>)
                         \o (IF ~wasWithering /\ wasWithering' THEN <<"wither">> ELSE <<>>)
                    ELSE <<>>
         /\ wasBlooming' = IF ~wasBlooming /\ currentMood' > 600 THEN TRUE
                           ELSE IF wasBlooming /\ currentMood' < 200 THEN FALSE
                           ELSE wasBlooming
         /\ wasWithering' = IF variant # "wither" THEN wasWithering
                            ELSE IF ~wasWithering /\ currentMood' < 0 - 600 THEN TRUE
                            ELSE IF wasWithering /\ currentMood' > 0 - 200 THEN FALSE
                            ELSE wasWithering]_vars

\* without a sink a mood below -0.6 set the wither latch and nothing was called
C3_Witness ==
    /\ ~hasSink
    /\ variant = "wither"
    /\ wasWithering
    /\ ~wasBlooming
    /\ currentMood < 0 - 600
    /\ sunk = <<>>

\* C7: in the wither variant the wither latch goes from clear to set, and
\* 'wither' reaches a supplied sink, if and only if the latch was clear and the
\* smoothed mood is below -0.6; it goes from set to clear only in a frame whose
\* smoothed mood is above -0.2; its new value depends on the wither latch and
\* the smoothed mood alone, whatever the bloom latch does in the frame.
C7_WitherSymmetric ==
    [][(DrawStep /\ variant = "wither") =>
         /\ (~wasWithering /\ wasWithering')
               <=> (~wasWithering /\ currentMood' < 0 - 600)
         /\ hasSink => (("wither" \in Events(sunk'))
                          <=> (~wasWithering /\ currentMood' < 0 - 600))
         /\ (wasWithering /\ ~wasWithering') => currentMood' > 0 - 200
         /\ (wasWithering /\ currentMood' <= 0 - 200) => wasWithering'
         /\ wasBlooming' = (IF ~wasBlooming /\ currentMood' > 600 THEN TRUE
                            ELSE IF wasBlooming /\ currentMood' < 200 THEN FALSE
                            ELSE wasBlooming)]_vars

\* a 'wither' was raised in the last frame, after an earlier 'bloom'
C7_Witness ==
    /\ variant = "wither"
    /\ sunk = <<"wither">>
    /\ wasWithering
    /\ bloomed

(***************************************************************************)
(* SpecScript: the detector under a scripted state source.  The script is  *)
(* fixed when the engine is created; frame k (from 0) reads the snapshot   *)
(* the script gives for k, then draws.  No branch hits its spawn window.   *)
(***************************************************************************)

Seg(m, w, n) == [mood |-> m, windForce |-> w, frames |-> n]

RECURSIVE TotalFrames(_)
TotalFrames(p) == IF p = <<>> THEN 0 ELSE Head(p).frames + TotalFrames(Tail(p))

RECURSIVE SegAt(_, _)
SegAt(p, k) ==
    IF k < Head(p).frames THEN Head(p) ELSE SegAt(Tail(p), k - Head(p).frames)

\* what getTreeState returns in frame k of script p
SnapshotAt(p, k) == [mood |-> SegAt(p, k).mood, windForce |-> SegAt(p, k).windForce]

\* the state source supplies the frame's snapshot, then p.draw runs
FeedFrame(n, r, lateral) ==
    /\ fed < TotalFrames(plan)
    /\ treeState' = SnapshotAt(plan, fed)
    /\ fed' = fed + 1
    /\ DrawWith(SnapshotAt(plan, fed), n, r, lateral)
    /\ UNCHANGED statVars
    /\ UNCHANGED plan

\* longest first segment of a two-segment script
MaxHold == 24

\* length of a constant script
LongRun == 100

ScriptMoods == {0 - (9 * Unit) \div 10, (9 * Unit) \div 10}

ScriptWinds == {Unit \div 2}

\* mood m1 for n frames, then mood m2 for one frame
StepScripts ==
    {<<Seg(m1, w, n), Seg(m2, w, 1)>> :
        m1 \in ScriptMoods, m2 \in ScriptMoods, w \in ScriptWinds, n \in 1..MaxHold}

\* one snapshot for LongRun frames
ConstScripts == {<<Seg(m, w, LongRun)>> : m \in ScriptMoods, w \in ScriptWinds}

\* the moods 0, 0.3, 0.65, 0.7, 0.5, 0.1, 0.65
ExampleMoods == <<0, 300, 650, 700, 500, 100, 650>>

\* one of them per frame, wind 0
HysteresisExample == [i \in 1..Len(ExampleMoods) |-> Seg(ExampleMoods[i], 0, 1)]

\* length of a script of extreme moods
EarlyFrames == 10

\* the ends of the mood range
ExtremeMoods == {0 - Unit, Unit}

\* one extreme mood for n frames, then an extreme mood for the rest of
\* EarlyFrames frames
EarlyScripts ==
    {<<Seg(m1, w, n), Seg(m2, w, EarlyFrames - n)>> :
        m1 \in ExtremeMoods, m2 \in ExtremeMoods, w \in ScriptWinds,
        n \in 1..(EarlyFrames - 1)}

Scripts == StepScripts \cup ConstScripts \cup {HysteresisExample} \cup EarlyScripts

InitScript == Created /\ Hosted /\ plan \in Scripts

ScriptSetup == Setup(CanvasSizes, BuildSeeds)

ScriptFrame == FeedFrame(0, NoDraws, 0)

NextScript == ScriptSetup \/ ScriptFrame

SpecScript == InitScript /\ [][NextScript]_vars

(***************************************************************************)
(* Claims about scripted feeds, checked under SpecScript                   *)
(***************************************************************************)

\* C4 as stated: feeding 0, 0.3, 0.65, 0.7, 0.5, 0.1, 0.65 to a fresh engine,
\* one value per frame, raises 'bloom' in the frames of index 2 and 6 and in
\* no other frame (the frame of index i has just run when fed = i + 1).
C4_EventsAtTwoAndSix ==
    (plan = HysteresisExample /\ hasSink)
       => (("bloom" \in Events(sunk)) <=> fed \in {3, 7})

\* the frame indices (from 0) in which the bloom test of p.draw fires when the
\* smoothed mood takes the values seq[k], seq[k+1], ... in consecutive frames
\* and the latch is was before the first of them
RECURSIVE BloomFrames(_, _, _)
BloomFrames(was, seq, k) ==
    IF k > Len(seq) THEN {}
    ELSE LET b == BloomStep(was, seq[k])
         IN  (IF b.fire THEN {k - 1} ELSE {}) \cup BloomFrames(b.latch, seq, k + 1)

\* C4 as amended: fed to a fresh engine, one value per frame, the sequence
\* raises no event in any frame, because the detector reads the smoothed
\* mood, which stays in [0, 0.226] and leaves the latch clear; the indices 2
\* and 6, and no others, are where the bloom test fires when the smoothed mood
\* itself takes the seven values from a clear latch.
C4_ExampleRaisesNothing ==
    plan = HysteresisExample
       => /\ sunk = <<>>
          /\ ~bloomed
          /\ ~wasBlooming
          /\ currentMood >= 0
          /\ currentMood <= 226
          /\ BloomFrames(FALSE, ExampleMoods, 1) = {2, 6}

\* the seven values were fed to an engine with a sink
C4_Witness ==
    /\ plan = HysteresisExample
    /\ hasSink
    /\ fed = 7
    /\ currentMood = 226

\* C5: after mood 0.9 for any number n >= 1 of frames, the frame that reads
\* mood -0.9 raises no 'bloom', whether the latch was set before it or not.
C5_NoBloomOnReversal ==
    (/\ Len(plan) = 2
     /\ plan[1].mood = 900
     /\ plan[2].mood = 0 - 900
     /\ fed = plan[1].frames + 1)
       => ~("bloom" \in Events(sunk))

\* the reversal frame has run with the latch set and left the smoothed mood
\* above 0.6
C5_Witness ==
    /\ Len(plan) = 2
    /\ plan[1].mood = 900
    /\ plan[2].mood = 0 - 900
    /\ fed = plan[1].frames + 1
    /\ hasSink
    /\ wasBlooming
    /\ currentMood > 600
    /\ currentMood < 900

\* C6: a fresh engine on an 800x600 canvas, with a sink, fed mood 0.9 and
\* windForce 0.5 for 100 frames has raised at least one 'bloom'.
C6_BloomWithinHundredFrames ==
    (/\ Len(plan) = 1
     /\ plan[1].mood = 900
     /\ plan[1].windForce = 500
     /\ width = 800
     /\ height = 600
     /\ hasSink
     /\ fed = 100)
       => bloomed

\* the hundredth frame of that feed has run
C6_Witness ==
    /\ Len(plan) = 1
    /\ plan[1].mood = 900
    /\ plan[1].windForce = 500
    /\ width = 800
    /\ height = 600
    /\ hasSink
    /\ fed = 100
    /\ wasBlooming

\* |a - b|
Dist(a, b) == IF a >= b THEN a - b ELSE b - a

\* C13 as stated: in every frame, with m and t the mood and windForce the frame
\* reads, a smoothed mood other than m ends strictly closer to m and on the
\* same side of it, and likewise the smoothed wind with t.
C13_StrictlyCloserEveryFrame ==
    [][ScriptFrame =>
         LET m == treeState'.mood
             t == treeState'.windForce
         IN  /\ currentMood # m => Dist(currentMood', m) < Dist(currentMood, m)
             /\ currentMood < m => currentMood' <= m
             /\ currentMood > m => currentMood' >= m
             /\ currentWind # t => Dist(currentWind', t) < Dist(currentWind, t)
             /\ currentWind < t => currentWind' <= t
             /\ currentWind > t => currentWind' >= t]_vars

\* C13 as amended: in every frame the smoothed mood ends no farther from m
\* than it was and on the same side of it, and strictly closer while it is
\* more than 0.005 away (five times the resolution of the arithmetic); nearer
\* than that, the blend step rounds to nothing and the value may stay where
\* it is, short of m.  Likewise the smoothed wind with t.
C13_CloserDownToResolution ==
    [][ScriptFrame =>
         LET m == treeState'.mood
             t == treeState'.windForce
         IN  /\ Dist(currentMood', m) <= Dist(currentMood, m)
             /\ Dist(currentMood, m) > 5 => Dist(currentMood', m) < Dist(currentMood, m)
             /\ currentMood < m => currentMood' <= m
             /\ currentMood > m => currentMood' >= m
             /\ Dist(currentWind', t) <= Dist(currentWind, t)
             /\ Dist(currentWind, t) > 5 => Dist(currentWind', t) < Dist(currentWind, t)
             /\ currentWind < t => currentWind' <= t
             /\ currentWind > t => currentWind' >= t]_vars

\* the hundredth frame at mood 0.9 has run and the smoothed mood is within
\* 0.005 of 0.9 without being 0.9
C13_Witness ==
    /\ fed = 100
    /\ treeState.mood = 900
    /\ currentMood # 900
    /\ Dist(currentMood, 900) <= 5
    /\ currentWind # 500

(***************************************************************************)
(* SpecParticles: the particle store.  The state source holds one mood     *)
(* (1.0 or -1.0, wind 0) for ParticleFrames frames, so the spawn gates     *)
(* open after a few frames; in every frame any number in SpawnCounts of    *)
(* the eligible branches may hit their spawn window, and all spawns of one *)
(* frame take the same draws; the window may be resized between frames.    *)
(***************************************************************************)

\* frames of a particle script
ParticleFrames == 7

\* the larger number of spawns explored for one frame
Burst == 301

\* particles pushed in one run
MaxSpawned == 303

ParticleScripts == {<<Seg(Unit, 0, ParticleFrames)>>, <<Seg(0 - Unit, 0, ParticleFrames)>>}

ParticleSizes == {<<800, 600>>, <<500, 500>>}

SpawnCounts == {0, 1, Burst}

\* a tip low on the right of the wide canvas, a tip low on the left of both
SpawnDraws ==
    {[x |-> 700 * Unit, y |-> 583 * Unit, uvx |-> 100, uvy |-> 500,
      uflower |-> 800, uground |-> 950, uangle |-> 250, uangleVel |-> 900,
      uflip |-> 500, uflipSpeed |-> 0, usize |-> 400],
     [x |-> 250 * Unit, y |-> 490 * Unit, uvx |-> 900, uvy |-> 0,
      uflower |-> 200, uground |-> 100, uangle |-> 0, uangleVel |-> 100,
      uflip |-> 750, uflipSpeed |-> 999, usize |-> 999]}

LateralForces == {0}

InitParticles == Created /\ Hosted /\ hasSink /\ plan \in ParticleScripts

ParticleSetup == Setup(ParticleSizes, BuildSeeds)

ParticleResize ==
    \E s \in ParticleSizes :
       /\ s # <<width, height>>
       /\ WindowResized({s}, BuildSeeds)

ParticleFrame ==
    \E n \in SpawnCounts, r \in SpawnDraws, f \in LateralForces :
       /\ spawned + n <= MaxSpawned
       /\ variant = "wither" => n <= 1
       /\ FeedFrame(n, r, f)

NextParticles == ParticleSetup \/ ParticleResize \/ ParticleFrame

SpecParticles == InitParticles /\ [][NextParticles]_vars

(***************************************************************************)
(* Claims about the particle store, checked under SpecParticles            *)
(***************************************************************************)

\* the serials of a store, in store order
Ids(ps) == [i \in 1..Len(ps) |-> ps[i].id]

\* the serials pushed by a step that raised the push count from a to b
NewIds(a, b) == [i \in 1..(b - a) |-> a + i]

\* the last n elements of a sequence
LastN(seq, n) == IF Len(seq) > n THEN SubSeq(seq, Len(seq) - n + 1, Len(seq)) ELSE seq

\* C8 as stated: in the style variant the store never holds more than 300
\* particles, neither between frames nor inside a frame, between the spawns
\* of the renderBranch pass and the updateParticles call that follows them.
C8_NeverAboveCapacity ==
    variant = "style" => (Len(particles) <= 300 /\ peak <= 300)

\* C8 as amended: in the style variant the store holds at most 300 particles
\* whenever a draw call has returned (after its updateParticles).
C8_AtMostCapacityAfterFrame ==
    variant = "style" => Len(particles) <= 300

\* a frame went into updateParticles with more than 300 particles and left 300
C8_Witness ==
    /\ variant = "style"
    /\ peak > 300
    /\ Len(particles) = 300

\* C9: when a frame of the style variant enters updateParticles with more
\* than 300 particles and none is removed for its horizontal position, the
\* store afterwards holds exactly the 300 newest of them, in spawn order.
C9_NewestSurviveInOrder ==
    [][(ParticleFrame /\ variant = "style" /\ peak' > 300 /\ culled' = 0)
          => /\ Len(particles') = 300
             /\ Ids(particles') =
                   LastN(Ids(particles) \o NewIds(spawned, spawned'), 300)]_vars

\* 303 particles were there (two older ones and a burst of 301), the three
\* oldest were evicted and no other
C9_Witness ==
    /\ variant = "style"
    /\ peak = 303
    /\ culled = 0
    /\ Len(particles) = 300
    /\ particles[1].id = 4
    /\ particles[300].id = 303

\* C10: in the style variant a particle of the store is either falling above
\* its groundY or grounded at y = groundY with zero velocity, and whatever
\* step is taken (a frame or a resize), a grounded particle that stays in the
\* store keeps every field: it stays grounded, and its position, velocity,
\* spin angle and flip phase are unchanged.
C10_GroundedStaysPut ==
    /\ [](variant = "style" =>
            \A i \in 1..Len(particles) :
               IF particles[i].isGrounded
               THEN /\ particles[i].y = particles[i].groundY
                    /\ particles[i].vx = 0
                    /\ particles[i].vy = 0
               ELSE particles[i].y < particles[i].groundY)
    /\ [][variant = "style" =>
            \A i \in 1..Len(particles) : \A j \in 1..Len(particles') :
               (particles[i].isGrounded /\ particles'[j].id = particles[i].id)
                  => particles'[j] = particles[i]]_vars

\* the first particle fell for two frames (its flip phase advanced twice) and
\* grounded in the second; a younger particle has moved in two frames, so the
\* grounded one has been through at least one more updateParticles
C10_Witness ==
    /\ variant = "style"
    /\ Len(particles) >= 2
    /\ particles[1].id = 1
    /\ particles[1].isGrounded
    /\ particles[1].y = particles[1].groundY
    /\ particles[1].flip = random(500, 0, TWO_PI) + 2 * 50
    /\ particles[2].id = 2
    /\ particles[2].x = 250 * Unit + 376 + 353

\* the elements of a sequence
Range(seq) == {seq[i] : i \in 1..Len(seq)}

\* C11: in the style variant, when a frame's updateParticles has run, no
\* particle of the store has x below -100 or above width + 100; every particle
\* it spliced out after the capacity trim, grounded or falling, had such an x;
\* and the store is what the trim kept without the spliced ones, in the same
\* order.
C11_OutOfBoundsRemoved ==
    [][(ParticleFrame /\ variant = "style") =>
         /\ \A i \in 1..Len(particles') :
               /\ particles'[i].x >= 0 - 100 * 1000
               /\ particles'[i].x <= (width + 100) * 1000
         /\ \A i \in 1..Len(gone') :
               \/ gone'[i].x < 0 - 100 * 1000
               \/ gone'[i].x > (width + 100) * 1000
         /\ Ids(particles') =
               SelectSeq(LastN(Ids(particles) \o NewIds(spawned, spawned'), 300),
                         LAMBDA id : id \notin Range(Ids(gone')))]_vars

\* a grounded particle was spliced out (the window had become narrower than
\* its x) and a younger particle stayed
C11_Witness ==
    /\ variant = "style"
    /\ Len(gone) = 1
    /\ gone[1].isGrounded
    /\ gone[1].x > (width + 100) * 1000
    /\ Len(particles) >= 1
    /\ particles[1].id > gone[1].id

(***************************************************************************)
(* SpecFade: the life-based store of the wither variant over a long run.   *)
(* The mood is held at 1.0 or at -1.0 for FadeFrames frames; in every      *)
(* of the first SpawnWindow frames one eligible branch may hit its spawn    *)
(* window, until MaxFadeSpawned particles have been pushed.                *)
(***************************************************************************)

\* frames of a fade script: a live particle lasts 160 updateParticles calls
FadeFrames == 170

\* particles pushed in one run
MaxFadeSpawned == 1

\* the frames in which a spawn is explored
SpawnWindow == 10

FadeScripts == {<<Seg(Unit, 0, FadeFrames)>>, <<Seg(0 - Unit, 0, FadeFrames)>>}

\* a tip high in the canopy, and a tip just above the bottom edge
FadeDraws ==
    {[x |-> 400 * Unit, y |-> 200 * Unit, uvx |-> 500, uvy |-> 500,
      uflower |-> 800, uground |-> 0, uangle |-> 250, uangleVel |-> 900,
      uflip |-> 500, uflipSpeed |-> 0, usize |-> 400],
     [x |-> 300 * Unit, y |-> 598 * Unit, uvx |-> 500, uvy |-> 999,
      uflower |-> 200, uground |-> 0, uangle |-> 0, uangleVel |-> 100,
      uflip |-> 750, uflipSpeed |-> 999, usize |-> 999]}

InitFade == Created /\ Hosted /\ variant = "wither" /\ hasSink /\ plan \in FadeScripts

FadeSetup == Setup(CanvasSizes, BuildSeeds)

FadeFrame ==
    \E n \in {0, 1}, r \in FadeDraws :
       /\ spawned + n <= MaxFadeSpawned
       /\ n > 0 => fed < SpawnWindow
       /\ FeedFrame(n, r, 0)

NextFade == FadeSetup \/ FadeFrame

SpecFade == InitFade /\ [][NextFade]_vars

\* C12: in the wither variant every updateParticles call takes 3.0 (dead
\* leaf) or 1.6 (live particle) off the life of every particle of the store;
\* the particle stays if the life left is above 0 and its y is at most
\* height + 50, and is spliced out in that same call otherwise; no particle
\* with life <= 0 is in the store after a call.
C12_LifeFadesAndRemoves ==
    [][FadeFrame =>
         /\ \A i \in 1..Len(particles) :
               LET left == particles[i].life
                              - (IF particles[i].isDead THEN 3000 ELSE 1600)
               IN  \/ \E j \in 1..Len(particles') :
                         /\ particles'[j].id = particles[i].id
                         /\ particles'[j].life = left
                         /\ left > 0
                         /\ particles'[j].y <= (height + 50) * 1000
                   \/ \E j \in 1..Len(gone') :
                         /\ gone'[j].id = particles[i].id
                         /\ gone'[j].life = left
                         /\ (left <= 0 \/ gone'[j].y > (height + 50) * 1000)
         /\ \A j \in 1..Len(particles') : particles'[j].life > 0]_vars

\* a dead leaf has just been spliced out above the bottom edge because its
\* life reached 0 in its 85th call
C12_Witness ==
    /\ variant = "wither"
    /\ Len(gone) = 1
    /\ gone[1].isDead
    /\ gone[1].life = 0
    /\ gone[1].y <= (height + 50) * 1000
    /\ particles = <<>>

(***************************************************************************)
(* SpecTree: the skeleton and the renderer.  The window opens at one of    *)
(* TreeSizes and may be resized to another between frames, up to           *)
(* MaxRebuilds builds between two frames; every build consumes one of      *)
(* TreeSeeds; the mood is held at 1.0 or at -1.0 for TreeFrames frames.    *)
(***************************************************************************)

\* frames of a tree script
TreeFrames == 4

TreeScripts ==
    {<<Seg(Unit, 0, TreeFrames)>>, <<Seg(Unit \div 2, 0, TreeFrames)>>,
     <<Seg(0 - Unit, 0, TreeFrames)>>}

TreeSizes == {<<800, 600>>, <<599, 480>>, <<600, 40>>}

TreeSeeds == {[a |-> 0, b |-> 0], [a |-> Unit - 1, b |-> 0], [a |-> 137, b |-> 379]}

InitTree == Created /\ Hosted /\ hasSink /\ plan \in TreeScripts

TreeSetup == Setup(TreeSizes, TreeSeeds)

TreeResize ==
    \E s \in TreeSizes :
       /\ s # <<width, height>>
       /\ WindowResized({s}, TreeSeeds)

TreeFrame == FeedFrame(0, NoDraws, 0)

NextTree == TreeSetup \/ TreeResize \/ TreeFrame

SpecTree == InitTree /\ [][NextTree]_vars

(***************************************************************************)
(* Claims about the skeleton and the renderer, checked under SpecTree      *)
(***************************************************************************)

\* the Branch objects of a tree: the branch, then those of each child in turn
RECURSIVE NodesOf(_)
RECURSIVE NodesOfAll(_, _)
NodesOf(branch) == <<branch>> \o NodesOfAll(branch.children, 1)

NodesOfAll(kids, i) ==
    IF i > Len(kids) THEN <<>>
    ELSE NodesOf(kids[i]) \o NodesOfAll(kids, i + 1)

\* the Branch objects of each skeleton a build can leave
BuiltNodes == [root \in BuiltSkeletons |-> NodesOf(Skeleton(root))]

\* C14: whatever the canvas size, the tree a build leaves has 1023 branches;
\* the root has depth 0 and a child is one deeper than its parent; no branch
\* is deeper than 9; a branch of depth below 9 has exactly 2 children and one
\* of depth 9 has none; every lenMult is in [0.64, 0.80] and every
\* noiseThreshold in [0.05, 0.95].
C14_CompleteBinarySkeleton ==
    rootBranch.built =>
       LET nodes == BuiltNodes[rootBranch]
       IN  /\ Len(nodes) = 1023
           /\ nodes[1].depth = 0
           /\ \A i \in 1..Len(nodes) :
                 /\ nodes[i].depth >= 0
                 /\ nodes[i].depth <= 9
                 /\ nodes[i].depth < 9 => Len(nodes[i].children) = 2
                 /\ nodes[i].depth = 9 => Len(nodes[i].children) = 0
                 /\ \A c \in 1..Len(nodes[i].children) :
                       nodes[i].children[c].depth = nodes[i].depth + 1
                 /\ nodes[i].lenMult >= 640
                 /\ nodes[i].lenMult <= 800
                 /\ nodes[i].noiseThreshold >= 50
                 /\ nodes[i].noiseThreshold <= 950

\* a skeleton was built for the 600 x 40 canvas from the stream that changes
\* from call to call: it has a branch of depth 9 and lenMults on both sides
\* of 0.72
C14_Witness ==
    /\ rootBranch.built
    /\ width = 600
    /\ height = 40
    /\ rootBranch.seed = [a |-> 137, b |-> 379]
    /\ \E i \in 1..Len(BuiltNodes[rootBranch]) :
          /\ BuiltNodes[rootBranch][i].depth = 9
          /\ BuiltNodes[rootBranch][i].lenMult < 700
    /\ \E i \in 1..Len(BuiltNodes[rootBranch]) :
          BuiltNodes[rootBranch][i].lenMult > 740

\* C15: every branch of a built skeleton carries a positive len and a
\* positive thick, and each child's len is its parent's len times the child's
\* lenMult and its thick is its parent's thick times 0.7.
C15_BranchesCarryLenAndThick ==
    rootBranch.built =>
       LET nodes == BuiltNodes[rootBranch]
       IN  \A i \in 1..Len(nodes) :
              /\ nodes[i].len > 0
              /\ nodes[i].thick > 0
              /\ \A c \in 1..Len(nodes[i].children) :
                    /\ nodes[i].children[c].len =
                          RoundDiv(nodes[i].len * nodes[i].children[c].lenMult, 1000)
                    /\ nodes[i].children[c].thick =
                          RoundDiv(nodes[i].thick * 7, 10)

\* C16: a frame, whatever mood and wind it reads, leaves rootBranch as it
\* was, and with it every field of every Branch object (they are
\* Skeleton(rootBranch)); a step that changes rootBranch is p.setup or
\* p.windowResized.
C16_SkeletonUnchangedByFrames ==
    [][/\ TreeFrame => rootBranch' = rootBranch
       /\ rootBranch' # rootBranch => (TreeSetup \/ TreeResize)]_vars

\* TreeFrames frames at mood 1.0 have run since the last build, on the skeleton
\* built for the 599 x 480 canvas from the changing stream
C16_Witness ==
    /\ fed = TreeFrames
    /\ fed >= 3
    /\ rebuilds = 0
    /\ currentMood > 250
    /\ rootBranch = buildTreeSkeleton(599, 480, [a |-> 137, b |-> 379])

C18_OneRebuildBetweenFrames ==
    fed >= 1 => rebuilds <= 1

\* the smoothed mood after k frames of a constant raw mood
RECURSIVE SmoothedAfter(_, _)
SmoothedAfter(target, k) ==
    IF k = 0 THEN 0 ELSE SmoothMood(SmoothedAfter(target, k - 1), target)

\* the smoothed moods of the tree scripts
TreeMoods ==
    {SmoothedAfter(p[1].mood, k) : p \in TreeScripts, k \in 0..TreeFrames}

\* the pass p.draw renders for each built skeleton at each of these moods,
\* computed once
TreePasses ==
    [root \in {buildTreeSkeleton(s[1], s[2], u) : s \in TreeSizes, u \in TreeSeeds} |->
        LET tree == Skeleton(root)
        IN  [mood \in TreeMoods |->
               renderBranch(tree, root.len, root.thick, mood)]]

\* C19: with the bloom factor the smoothed mood clamped to [0, 1], in the
\* pass rendered for the skeleton and the smoothed mood of the state, a call
\* draws foliage exactly when its branch has depth 6..9 and the bloom factor
\* is above the branch's baked threshold, and draws a flower exactly when it
\* draws foliage, the branch has a flower slot and the bloom factor is above
\* 0.25; no call draws foliage while the smoothed mood is at most 0.05; and a
\* call that draws foliage draws it in the pass of every larger smoothed mood.
C19_FoliageByDepthAndThreshold ==
    phase = "running" =>
       LET bf == IF currentMood < 0 THEN 0
                 ELSE IF currentMood > 1000 THEN 1000 ELSE currentMood
           pass == TreePasses[rootBranch][currentMood]
       IN  /\ \A i \in 1..Len(pass) :
                /\ pass[i].foliage <=>
                      (pass[i].depth \in 6..9 /\ bf > pass[i].noiseThreshold)
                /\ pass[i].flower <=>
                      (pass[i].foliage /\ pass[i].hasFlower /\ bf > 250)
                /\ currentMood <= 50 => ~pass[i].foliage
           /\ \A m \in TreeMoods :
                m >= currentMood =>
                   /\ Len(TreePasses[rootBranch][m]) = Len(pass)
                   /\ \A i \in 1..Len(pass) :
                         pass[i].foliage => TreePasses[rootBranch][m][i].foliage

\* after three frames of mood 1.0 or more the smoothed mood is above 0.25 and
\* the pass draws foliage with a flower on one branch, foliage without one on
\* another, nothing on a third branch of the band whose threshold is not yet
\* passed, and renders a branch of depth 5
C19_Witness ==
    /\ fed >= 3
    /\ currentMood > 250
    /\ rootBranch = buildTreeSkeleton(800, 600, [a |-> 137, b |-> 379])
    /\ LET pass == TreePasses[rootBranch][currentMood]
       IN  /\ \E i \in 1..Len(pass) : pass[i].foliage /\ pass[i].flower
           /\ \E i \in 1..Len(pass) : pass[i].foliage /\ ~pass[i].flower
           /\ \E i \in 1..Len(pass) : pass[i].depth >= 6 /\ ~pass[i].foliage
           /\ \E i \in 1..Len(pass) : pass[i].depth = 5

\* C20: in the pass rendered for the skeleton and the smoothed mood of the
\* state, a call goes on to the children of its branch exactly when the
\* branch has depth below 9 and the length it is drawn with is at least 4:
\* the call after it is then the call of a child, one level deeper, and the
\* calls one level deeper are two for each call that went on; the pass is
\* finite, has at most 1023 calls, and none is of a branch deeper than 9.
C20_RecursionStopsAtCapOrShortBranch ==
    phase = "running" =>
       LET pass == TreePasses[rootBranch][currentMood]
           At(d) == {i \in 1..Len(pass) : pass[i].depth = d}
       IN  /\ Len(pass) >= 1
           /\ Len(pass) <= 1023
           /\ pass[1].depth = 0
           /\ pass[1].len = rootBranch.len
           /\ \A i \in 1..Len(pass) :
                /\ pass[i].depth \in 0..9
                /\ pass[i].goesOn <=> (pass[i].depth < 9 /\ pass[i].len >= 4000)
                /\ pass[i].goesOn <=>
                      (i < Len(pass) /\ pass[i + 1].depth = pass[i].depth + 1)
           /\ \A d \in 0..9 :
                Cardinality(At(d + 1)) =
                   2 * Cardinality({i \in At(d) : pass[i].goesOn})

\* on the 600 by 40 canvas the trunk is 10.4 long: the pass stops at a branch
\* of depth 3 to 5 drawn shorter than 4 whose parent was drawn with 4 or more,
\* and has fewer than 1023 calls
C20_Witness ==
    /\ fed >= 1
    /\ width = 600
    /\ height = 40
    /\ rootBranch.seed = [a |-> 137, b |-> 379]
    /\ LET pass == TreePasses[rootBranch][currentMood]
       IN  /\ Len(pass) < 1023
           /\ \E i \in 2..Len(pass) :
                 /\ pass[i].depth \in 3..5
                 /\ pass[i].len < 4000
                 /\ ~pass[i].goesOn
                 /\ pass[i - 1].goesOn
                 /\ pass[i - 1].len >= 4000

(***************************************************************************)
(* SpecStyle: the style variant while the user changes the flower style.   *)
(* Flower and leaf particles are spawned low over the ground, so that they *)
(* are drawn in flight and lying on the ground.                            *)
(***************************************************************************)

\* frames of a style script
StyleFrames == 7

\* particles pushed in one run
MaxStyleSpawned == 2

StyleScripts == {<<Seg(Unit, 0, StyleFrames)>>}

\* a flower and a leaf from tips a few pixels above their ground lines
StyleDraws ==
    {[x |-> 700 * Unit, y |-> 583 * Unit, uvx |-> 100, uvy |-> 500,
      uflower |-> 800, uground |-> 950, uangle |-> 250, uangleVel |-> 900,
      uflip |-> 500, uflipSpeed |-> 0, usize |-> 400],
     [x |-> 250 * Unit, y |-> 595 * Unit, uvx |-> 900, uvy |-> 0,
      uflower |-> 200, uground |-> 100, uangle |-> 0, uangleVel |-> 100,
      uflip |-> 750, uflipSpeed |-> 999, usize |-> 999]}

\* a container whose init effect depends on flowerStyle: a style change
\* removes the sketch and creates another
SetFlowerStyleRemounts(tags) ==
    /\ hasStarted
    /\ \E tag \in tags :
          /\ tag # flowerStyle
          /\ flowerStyle' = tag
    /\ NewSketch
    /\ sketches' = sketches + 1
    /\ UNCHANGED <<variant, hasSink, treeState, plan, fed, hasStarted,
                   isLooping, scheduled, appMounted, awaiting,
                   landVars, statVars>>

\* useEffect(() => { flowerStyleRef.current = flowerStyle }, [flowerStyle])
\* after the user picked another style: nothing but the ref changes
SetFlowerStyle(tags) ==
    /\ hasStarted
    /\ \E tag \in tags :
          /\ tag # flowerStyle
          /\ flowerStyle' = tag
    /\ UNCHANGED <<variant, hasSink, phase, width, height, treeState, plan,
                   currentMood, currentWind, wasBlooming, wasWithering,
                   particles, rootBranch, fed, sunk, bloomed, trough, spawned,
                   peak, culled, gone, rebuilds, frameStyle, drawn, seen,
                   hasStarted, isLooping, scheduled, sketches, appMounted,
                   awaiting,
                   landVars, statVars>>

InitStyle ==
    Created /\ Hosted /\ variant = "style" /\ hasSink /\ plan \in StyleScripts

StyleSetup == Setup(CanvasSizes, BuildSeeds)

StyleSwitch == SetFlowerStyle(StyleTags)

StyleFrame ==
    \E n \in {0, 1}, r \in StyleDraws :
       /\ spawned + n <= MaxStyleSpawned
       /\ FeedFrame(n, r, 0)

NextStyle == StyleSetup \/ StyleSwitch \/ StyleFrame

SpecStyle == InitStyle /\ [][NextStyle]_vars

(***************************************************************************)
(* Claims about flower styles and particle rendering, checked under        *)
(* SpecStyle                                                               *)
(***************************************************************************)

\* C21: a frame passes down the style tag the style source holds when the
\* frame starts, and every flower particle the frame draws, whatever style
\* was current when it was pushed, is drawn in that tag (a leaf in none); a
\* particle in the store has a type, 'leaf' or 'flower', and apart from the
\* two fields that only name it here (id, born) no field for a style or for
\* the draws of a shape.
C21_FlowersUseStyleOfFrame ==
    /\ [](\A i \in 1..Len(particles) :
            /\ particles[i].type \in {"leaf", "flower"}
            /\ DOMAIN particles[i] \ {"id", "born"} =
                  {"x", "y", "vx", "vy", "type", "life", "isDead", "isGrounded",
                   "groundY", "angle", "angleVel", "flip", "flipSpeed", "size"})
    /\ [][StyleFrame =>
            /\ frameStyle' = flowerStyle
            /\ \A i \in 1..Len(drawn') :
                  drawn'[i].style =
                     (IF drawn'[i].type = "flower" THEN flowerStyle ELSE "none")]_vars

\* a flower particle pushed in a frame of style 'peach' has just been drawn
\* as 'sakura', the style the user picked since
C21_Witness ==
    /\ flowerStyle = "sakura"
    /\ frameStyle = "sakura"
    /\ \E i \in 1..Len(drawn) :
          /\ drawn[i].type = "flower"
          /\ drawn[i].born = "peach"
          /\ drawn[i].style = "sakura"

\* sizes a flower is drawn with: a thousandth of a pixel, particle sizes from
\* 7 to 12, an attached flower of 14, a very large one
FlowerSizes == {1, 7 * Unit, 9 * Unit, 11995, 14 * Unit, 100 * Unit}

\* the draws of a sequence that are of the given shape, in order
OfShape(draws, shape) == SelectSeq(draws, LAMBDA d : d.shape = shape)

\* five petals, each a fifth of a turn further than the one before, so that
\* the five rotations are the five fifths of the circle, and one centre
FivePetalsAndCentre(draws) ==
    LET petals == OfShape(draws, "petal")
    IN  /\ Len(draws) = 6
        /\ Len(petals) = 5
        /\ Len(OfShape(draws, "centre")) = 1
        /\ \A k \in 1..4 : petals[k + 1].rot - petals[k].rot = 1
        /\ {petals[k].rot % 5 : k \in 1..5} = 0..4

\* C22: for the tags peach, sakura and delonix and for a tag that is none of
\* them, and for every positive size, drawFlowerShape issues five petal
\* draws at rotations a fifth of a turn (2 pi / 5) apart and one centre
\* draw, and nothing else; the unknown tag draws what peach draws; and every
\* flower particle a frame has drawn was drawn so.
C22_FivePetalsOneCentre ==
    /\ \A style \in StyleTags \cup {"lotus"}, size \in FlowerSizes :
          /\ FivePetalsAndCentre(drawFlowerShape(style, size))
          /\ style \notin StyleTags =>
                drawFlowerShape(style, size) = drawFlowerShape("peach", size)
    /\ \A i \in 1..Len(drawn) :
          IF drawn[i].type = "flower"
          THEN FivePetalsAndCentre(drawn[i].draws)
          ELSE Len(drawn[i].draws) = 1 /\ drawn[i].draws[1].shape = "leaf"

\* a frame has drawn a flower particle in the delonix style: five petals at
\* 0, 1, 2, 3 and 4 fifths of a turn, then the centre
C22_Witness ==
    \E i \in 1..Len(drawn) :
       /\ drawn[i].type = "flower"
       /\ drawn[i].style = "delonix"
       /\ [k \in 1..5 |-> drawn[i].draws[k].rot] = <<0, 1, 2, 3, 4>>
       /\ drawn[i].draws[6].shape = "centre"

\* C25: every particle a frame draws lying on the ground, leaf or flower, is
\* drawn flattened, under the fixed vertical scale 0.2, and faded: every
\* shape drawn for it is filled at alpha 200.
C25_GroundedFlatAndFaded ==
    \A i \in 1..Len(drawn) :
       drawn[i].isGrounded =>
          /\ drawn[i].scaleY = 200
          /\ \A k \in 1..Len(drawn[i].draws) :
                drawn[i].draws[k].alpha = 200 * Unit

(***************************************************************************)
(* SpecApp: the App component around the sketch (src/unnamed/part_003 with *)
(* the SketchContainer of part_000).  From the landing screen the user     *)
(* starts the experience, which mounts the main view and with it the       *)
(* sketch; initVideo waits for the video to play and starts predictLoop,   *)
(* which re-schedules itself on the animation-frame queue; the user may    *)
(* change the flower style, return to the landing screen and start again;  *)
(* the App may be unmounted.  Every handler and every callback runs to     *)
(* completion (one JavaScript task), so each is one action; initVideo is   *)
(* two, split at its await.  This App passes a flowerStyle, so the sketch  *)
(* it mounts is the style variant.                                         *)
(***************************************************************************)

\* frames drawn in one run
AppFrames == 5

\* predictLoop callbacks explored in the queue at one time
MaxScheduled == 2

\* particles pushed by one sketch
MaxAppSpawned == 1

\* a flower from a tip in the crown
AppDraws ==
    {[x |-> 400 * Unit, y |-> 200 * Unit, uvx |-> 500, uvy |-> 500,
      uflower |-> 800, uground |-> 0, uangle |-> 250, uangleVel |-> 900,
      uflip |-> 500, uflipSpeed |-> 0, usize |-> 400]}

\* what analyzeFrame returns: a smiling still face, a frowning waving one
Analyses ==
    {[moodScore |-> Unit, movementScore |-> (2 * Unit) \div 10],
     [moodScore |-> 0 - Unit, movementScore |-> (8 * Unit) \div 10]}

\* the App on its landing screen: no main view, no sketch, no loop
Unstarted ==
    /\ variant = "style"
    /\ hasSink = TRUE
    /\ phase = "absent"
    /\ width = 0
    /\ height = 0
    /\ treeState = [mood |-> 0, windForce |-> 0]
    /\ currentMood = 0
    /\ currentWind = 0
    /\ wasBlooming = FALSE
    /\ wasWithering = FALSE
    /\ particles = <<>>
    /\ rootBranch = NoBranch
    /\ fed = 0
    /\ sunk = <<>>
    /\ bloomed = FALSE
    /\ trough = "none"
    /\ spawned = 0
    /\ peak = 0
    /\ culled = 0
    /\ gone = <<>>
    /\ rebuilds = 0
    /\ frameStyle = "none"
    /\ drawn = <<>>
    /\ seen = [mood |-> 0, windForce |-> 0]
    /\ plan = <<>>
    /\ flowerStyle = "peach"
    /\ hasStarted = FALSE
    /\ isLooping = FALSE
    /\ scheduled = 0
    /\ sketches = 0
    /\ appMounted = TRUE
    /\ awaiting = FALSE

\* the landing screen once the models have loaded, before a camera request
InitApp ==
    /\ Unstarted
    /\ modelsLoaded = TRUE
    /\ loading = FALSE
    /\ permissionError = FALSE
    /\ stream = FALSE
    /\ asking = FALSE
    /\ Counting

\* handleStartExperience got a stream and set hasStarted: the main view is
\* rendered, SketchContainer's init effect creates the sketch, and the
\* [hasStarted] effect calls initVideo, which goes as far as its await
\* unless the loop is already on
StartExperience ==
    /\ appMounted
    /\ ~hasStarted
    /\ ~awaiting
    /\ hasStarted' = TRUE
    /\ NewSketch
    /\ sketches' = 1
    /\ stream' = TRUE
    /\ awaiting' = ~isLooping
    /\ UNCHANGED <<variant, hasSink, treeState, plan, fed, flowerStyle,
                   isLooping, scheduled, appMounted,
                   modelsLoaded, loading, permissionError, asking, statVars>>

\* the body of predictLoop for the result analyzeFrame would return (video:
\* whether the video element is there and playing): [the snapshot after,
\* whether the loop re-scheduled itself]
predictLoop(looping, video, old, result) ==
    IF ~looping THEN [state |-> old, again |-> FALSE]
    ELSE [state |-> IF video THEN WriteSnapshot(old, result) ELSE old,
          again |-> TRUE]

\* initVideo after its await, the video plays: isLooping.current = true;
\* predictLoop().  The condition of the if is not tested again.
PlayResolved ==
    /\ awaiting
    /\ scheduled < MaxScheduled
    /\ awaiting' = FALSE
    /\ isLooping' = TRUE
    /\ \E a \in Analyses, playing \in BOOLEAN :
          LET run == predictLoop(TRUE, hasStarted /\ playing, treeState, a)
          IN  /\ treeState' = run.state
              /\ scheduled' = scheduled + (IF run.again THEN 1 ELSE 0)
    /\ UNCHANGED <<variant, hasSink, phase, width, height, plan, currentMood,
                   currentWind, wasBlooming, wasWithering, particles,
                   rootBranch, fed, sunk, bloomed, trough, spawned, peak,
                   culled, gone, rebuilds, frameStyle, drawn, seen,
                   flowerStyle, hasStarted, sketches, appMounted,
                   landVars, statVars>>

\* initVideo after its await, play() rejected: the catch logs the error
PlayRejected ==
    /\ awaiting
    /\ awaiting' = FALSE
    /\ UNCHANGED <<variant, hasSink, phase, width, height, treeState, plan,
                   currentMood, currentWind, wasBlooming, wasWithering,
                   particles, rootBranch, fed, sunk, bloomed, trough, spawned,
                   peak, culled, gone, rebuilds, frameStyle, drawn, seen,
                   flowerStyle, hasStarted, isLooping, scheduled, sketches,
                   appMounted,
                   landVars, statVars>>

\* the animation-frame queue runs a scheduled predictLoop
PredictTick ==
    /\ scheduled > 0
    /\ \E a \in Analyses, playing \in BOOLEAN :
          LET run == predictLoop(isLooping, hasStarted /\ playing, treeState, a)
          IN  /\ treeState' = run.state
              /\ scheduled' = scheduled - 1 + (IF run.again THEN 1 ELSE 0)
    /\ UNCHANGED <<variant, hasSink, phase, width, height, plan, currentMood,
                   currentWind, wasBlooming, wasWithering, particles,
                   rootBranch, fed, sunk, bloomed, trough, spawned, peak,
                   culled, gone, rebuilds, frameStyle, drawn, seen,
                   flowerStyle, hasStarted, isLooping, sketches, appMounted,
                   awaiting,
                   landVars, statVars>>

\* the Return to Start button: isLooping.current = false, the tracks are
\* stopped, setHasStarted(false); the landing screen replaces the main view
\* and SketchContainer's cleanup removes the p5 instance
ReturnToStart ==
    /\ appMounted
    /\ hasStarted
    /\ isLooping' = FALSE
    /\ hasStarted' = FALSE
    /\ phase' = "absent"
    /\ UNCHANGED <<variant, hasSink, width, height, treeState, plan,
                   currentMood, currentWind, wasBlooming, wasWithering,
                   particles, rootBranch, fed, sunk, bloomed, trough, spawned,
                   peak, culled, gone, rebuilds, frameStyle, drawn, seen,
                   flowerStyle, scheduled, sketches, appMounted, awaiting,
                   landVars, statVars>>

\* the App is unmounted: its cleanup clears isLooping and cancels the
\* callback requestRef names (the one scheduled last, if it is still
\* waiting); the cleanup of a mounted SketchContainer removes the p5 instance
AppUnmount ==
    /\ appMounted
    /\ appMounted' = FALSE
    /\ isLooping' = FALSE
    /\ scheduled' = IF scheduled > 0 THEN scheduled - 1 ELSE 0
    /\ hasStarted' = FALSE
    /\ phase' = "absent"
    /\ UNCHANGED <<variant, hasSink, width, height, treeState, plan,
                   currentMood, currentWind, wasBlooming, wasWithering,
                   particles, rootBranch, fed, sunk, bloomed, trough, spawned,
                   peak, culled, gone, rebuilds, frameStyle, drawn, seen,
                   flowerStyle, sketches, awaiting,
                   landVars, statVars>>

AppSetup == Setup(CanvasSizes, BuildSeeds)

AppStyle == SetFlowerStyle(StyleTags)

\* p5 calls p.draw: the frame reads the snapshot the ref holds
AppFrame ==
    \E n \in {0, 1}, r \in AppDraws :
       /\ fed < AppFrames
       /\ spawned + n <= MaxAppSpawned
       /\ fed' = fed + 1
       /\ DrawWith(treeState, n, r, 0)
       /\ UNCHANGED statVars
       /\ UNCHANGED <<treeState, plan>>

NextApp ==
    \/ StartExperience
    \/ PlayResolved
    \/ PlayRejected
    \/ PredictTick
    \/ ReturnToStart
    \/ AppUnmount
    \/ AppSetup
    \/ AppStyle
    \/ AppFrame

SpecApp == InitApp /\ [][NextApp]_vars

(***************************************************************************)
(* Claims about the host, checked under SpecApp                            *)
(***************************************************************************)

\* the snapshots a frame may read: the initial one and, for each result of
\* analyzeFrame, its two scores together
WholeSnapshots ==
    {[mood |-> 0, windForce |-> 0]} \cup
    {[mood |-> a.moodScore, windForce |-> a.movementScore] : a \in Analyses}

\* C23: however the runs of predictLoop and the frames interleave, the
\* snapshot in the ref and the snapshot a frame has read are the initial
\* {0, 0} or the two scores of one analyzeFrame result; a run of predictLoop
\* leaves the ref as it was or holding such a pair; a frame reads the
\* snapshot once, the one the ref holds when the frame starts (the last one
\* written), and smooths the mood and the wind towards that one pair.
C23_FramesReadWholeSnapshots ==
    /\ [](treeState \in WholeSnapshots /\ seen \in WholeSnapshots)
    /\ [][treeState' # treeState =>
            /\ treeState' \in WholeSnapshots \ {[mood |-> 0, windForce |-> 0]}
            /\ fed' = fed]_vars
    /\ [][fed' = fed + 1 =>
            /\ seen' = treeState
            /\ treeState' = treeState
            /\ currentMood' = currentMood + RoundDiv(10 * (treeState.mood - currentMood), 100)
            /\ currentWind' = currentWind + RoundDiv(12 * (treeState.windForce - currentWind), 100)]_vars

\* the last frame read the smiling pair {1.0, 0.2}, the frame before it the
\* frowning pair (the smoothed mood is below what two smiling frames give),
\* and predictLoop has since replaced the snapshot by the frowning pair
C23_Witness ==
    /\ fed >= 2
    /\ seen = [mood |-> 1000, windForce |-> 200]
    /\ treeState = [mood |-> 0 - 1000, windForce |-> 800]
    /\ currentMood < 100
    /\ currentWind > 24

\* C24: once the main view has been torn down (Return to Start, or the App
\* unmounted) the sketch draws no frame and raises no event, and no
\* predictLoop callback is left in the animation-frame queue.
C24_NothingSurvivesTeardown ==
    (~hasStarted \/ ~appMounted) => (phase = "absent" /\ scheduled = 0)

\* C27: while the main view is mounted exactly one sketch has been created
\* for it; a change of the flower style changes the style ref and nothing
\* else: the sketch is the same one, with its canvas, skeleton, particles,
\* smoothed mood and wind and its latches.
C27_OneSketchAcrossStyleChanges ==
    /\ [](hasStarted => (sketches = 1 /\ phase \in {"created", "running"}))
    /\ [][flowerStyle' # flowerStyle =>
            UNCHANGED <<sketches, phase, width, height, rootBranch, particles,
                        currentMood, currentWind, wasBlooming, wasWithering,
                        spawned, frameStyle, treeState>>]_vars

\* the user has changed the style since the last frame (drawn as 'peach',
\* the ref now holds 'sakura'): the one sketch still has its skeleton, a
\* particle in flight and its smoothed values
C27_Witness ==
    /\ hasStarted
    /\ sketches = 1
    /\ frameStyle = "peach"
    /\ flowerStyle = "sakura"
    /\ rootBranch.built
    /\ Len(particles) = 1
    /\ currentMood > 300
    /\ currentWind > 0


(***************************************************************************)
(* The style variant's sink, under Spec                                    *)
(***************************************************************************)

\* C28: in the style variant (src/services/treeSketch.ts) the only event ever
\* passed to the sink is 'bloom': no frame passes 'wither', whatever the
\* smoothed mood, and a frame passes at most one event.
C28_StyleSinkGetsOnlyBloom ==
    variant = "style" =>
        /\ Len(sunk) <= 1
        /\ \A i \in 1..Len(sunk) : sunk[i] = "bloom"

\* the style variant has bloomed, and a later frame has taken the smoothed
\* mood below -0.6, where the wither variant calls the sink, without a call
C28_Witness ==
    /\ variant = "style"
    /\ hasSink
    /\ bloomed
    /\ currentMood < 0 - (6 * Unit) \div 10
    /\ sunk = <<>>


(***************************************************************************)
(* The first frames of an engine, under SpecScript                         *)
(***************************************************************************)

\* C30: the smoothed mood starts at 0 and moves a tenth of the way to the
\* input per frame, so an engine whose every input mood is at most 1 passes
\* no 'bloom' to the sink, and sets no bloom latch, before its 9th frame; one
\* whose every input mood is at least -1 passes no 'wither', and sets no
\* wither latch, before its 9th frame.
C30_NoEventBeforeNinthFrame ==
    /\ ((\A i \in 1..Len(plan) : plan[i].mood <= Unit) /\ fed < 9)
           => ("bloom" \notin Events(sunk) /\ ~bloomed /\ ~wasBlooming)
    /\ ((\A i \in 1..Len(plan) : plan[i].mood >= 0 - Unit) /\ fed < 9)
           => ("wither" \notin Events(sunk) /\ ~wasWithering)

\* an engine fed mood 1 from its creation passes 'bloom' in its 9th frame
C30_Witness ==
    /\ plan \in EarlyScripts
    /\ \A i \in 1..Len(plan) : plan[i].mood = Unit
    /\ fed = 9
    /\ sunk = <<"bloom">>
    /\ currentMood > BloomOn


(***************************************************************************)
(* SpecJump: the wither variant under a state source whose moods lie far   *)
(* outside [-1, 1], so that one frame's smoothing update can carry the     *)
(* smoothed mood from above 0.6 to below -0.6 and back.  The source writes *)
(* one snapshot before every frame; no branch hits its spawn window.       *)
(***************************************************************************)

\* frames of a run
JumpFrames == 5

\* a frame at mood 7 takes the smoothed mood from 0 to 0.7, a frame at -14
\* from there to -0.77, a frame at 14 from there to 0.707
JumpMoods == {0 - 14 * Unit, 0 - 7 * Unit, 7 * Unit, 14 * Unit}

InitJump == Created /\ Hosted /\ variant = "wither" /\ plan = <<>>

JumpSetup == Setup(CanvasSizes, BuildSeeds)

\* the source replaces the snapshot, then p.draw reads it
JumpFrame ==
    \E m \in JumpMoods :
       /\ fed < JumpFrames
       /\ treeState' = [mood |-> m, windForce |-> 0]
       /\ fed' = fed + 1
       /\ DrawWith([mood |-> m, windForce |-> 0], 0, NoDraws, 0)
       /\ UNCHANGED statVars
       /\ UNCHANGED plan

NextJump == JumpSetup \/ JumpFrame

SpecJump == InitJump /\ [][NextJump]_vars

\* C29: in the wither variant wasBlooming and wasWithering are never both
\* true after a draw call, whatever the mood inputs, also when one frame
\* takes the smoothed mood across both thresholds; such a frame sets one
\* latch and clears the other.
C29_LatchesMutuallyExclusive ==
    variant = "wither" => ~(wasBlooming /\ wasWithering)

\* the first frame set the bloom latch, the second frame has taken the
\* smoothed mood from above 0.6 to below -0.6: it cleared the bloom latch,
\* set the wither latch and passed 'wither'
C29_Witness ==
    /\ variant = "wither"
    /\ hasSink
    /\ fed = 2
    /\ bloomed
    /\ currentMood < WitherOn
    /\ wasWithering
    /\ ~wasBlooming
    /\ sunk = <<"wither">>


(***************************************************************************)
(* SpecGate: spawning under a scripted state source that holds mood 1 or   *)
(* mood -1, on a canvas whose tree is rendered to full depth and on one    *)
(* whose rendering stops at depth 5.  In each frame no branch or one       *)
(* branch hits its spawn window.                                           *)
(***************************************************************************)

\* frames of a run
GateFrames == 8

\* spawns explored in a run
MaxGateSpawned == 3

GateSizes == {<<800, 600>>, <<600, 70>>}

GateScripts == {<<Seg(m, w, GateFrames)>> : m \in ExtremeMoods, w \in ScriptWinds}

\* two tips near the top of both canvases
GateDraws ==
    {[x |-> 300 * Unit, y |-> 30 * Unit, uvx |-> 500, uvy |-> 500,
      uflower |-> 800, uground |-> 500, uangle |-> 250, uangleVel |-> 500,
      uflip |-> 500, uflipSpeed |-> 0, usize |-> 400],
     [x |-> 200 * Unit, y |-> 20 * Unit, uvx |-> 100, uvy |-> 900,
      uflower |-> 200, uground |-> 100, uangle |-> 0, uangleVel |-> 100,
      uflip |-> 750, uflipSpeed |-> 999, usize |-> 999]}

InitGate == Created /\ Hosted /\ hasSink /\ plan \in GateScripts

GateSetup == Setup(GateSizes, BuildSeeds)

GateFrame ==
    \E n \in {0, 1}, r \in GateDraws :
       /\ spawned + n <= MaxGateSpawned
       /\ FeedFrame(n, r, 0)

NextGate == GateSetup \/ GateFrame

SpecGate == InitGate /\ [][NextGate]_vars

\* the number of renderBranch calls of depth above 5 in a pass over each
\* skeleton of SpecGate
DeepCalls ==
    [root \in {buildTreeSkeleton(s[1], s[2], u) : s \in GateSizes, u \in BuildSeeds} |->
        Len(SelectSeq(RenderPass(root, 0), LAMBDA call : call.depth > 5))]

\* the particles a frame has pushed, as the frame leaves them in the store or
\* has removed them, given the ids handed out before the frame
PushedSince(before, store, removed) ==
    {q \in Range(store) \cup Range(removed) : q.id > before}

\* C26: a frame pushes at most as many particles as its pass renders branches
\* of depth above 5, none where no such branch is rendered.  In the wither
\* variant a dead leaf is pushed only in a frame whose wither factor is above
\* 0.05 and a live particle only in one whose bloom factor is above 0.5, no
\* frame pushes both kinds, and no frame whose smoothed mood is in
\* [-0.24, 0.5] pushes anything.  In the style variant no frame whose bloom
\* factor is at most 0.3 pushes anything, and no particle is a dead leaf.
C26_SpawnsAreGated ==
    [][fed' = fed + 1 =>
         LET m == currentMood'
             new == PushedSince(spawned, particles', gone')
         IN  /\ Cardinality(new) = spawned' - spawned
             /\ spawned' - spawned <= DeepCalls[rootBranch]
             /\ variant = "wither" =>
                  /\ \A q \in new :
                        /\ q.isDead => witherFactorOf(m) > 50
                        /\ ~q.isDead => bloomFactorOf(m) > 500
                  /\ ~(\E q \in new : q.isDead) \/ ~(\E q \in new : ~q.isDead)
                  /\ (m >= 0 - 240 /\ m <= 500) => new = {}
             /\ variant = "style" =>
                  /\ bloomFactorOf(m) <= 300 => new = {}
                  /\ \A q \in new : ~q.isDead]_vars

\* the wither variant under mood -1: the third frame, the first whose
\* smoothed mood (-0.271) is below -0.24, has pushed a dead leaf
C26_Witness ==
    /\ variant = "wither"
    /\ fed = 3
    /\ currentMood < 0 - 240
    /\ spawned = 1
    /\ Len(particles) = 1
    /\ particles[1].isDead
    /\ DeepCalls[rootBranch] > 0


(***************************************************************************)
(* The range of the smoothed mood, under Spec                              *)
(***************************************************************************)

\* C31: the state source of Spec supplies moods in [-1, 1] only; after every
\* frame the smoothed mood lies in [-1, 1], the bloom factor derived from it
\* lies in [0, 1], and the bloom factor is 0 whenever the smoothed mood is at
\* most 0.
C31_SmoothedMoodInRange ==
    /\ \A m \in MoodInputs : m >= 0 - Unit /\ m <= Unit
    /\ currentMood >= 0 - Unit
    /\ currentMood <= Unit
    /\ bloomFactorOf(currentMood) >= 0
    /\ bloomFactorOf(currentMood) <= Unit
    /\ currentMood <= 0 => bloomFactorOf(currentMood) = 0

\* frames under mood 1 have taken the smoothed mood to within 0.01 of 1, and
\* the bloom factor with it
C31_Witness ==
    /\ treeState.mood = Unit
    /\ currentMood >= 990
    /\ bloomFactorOf(currentMood) = currentMood
    /\ wasBlooming


(***************************************************************************)
(* How a grounded particle leaves the store, under SpecParticles           *)
(***************************************************************************)

\* C32: in the style variant a grounded particle of the store leaves it only
\* in a frame, and only in one of two ways: the frame went into
\* updateParticles with more than 300 particles and the particle was among
\* the oldest ones in excess, or the canvas was resized since the frame
\* before and the particle's x is outside [-100, width + 100].  A resize by
\* itself removes nothing, and a frame that spawns nothing on a canvas not
\* resized since the frame before keeps every grounded particle.
C32_GroundedLeavesByTrimOrResize ==
    [][variant = "style" =>
         /\ \A i \in 1..Len(particles) :
               (particles[i].isGrounded
                  /\ particles[i].id \notin Range(Ids(particles')))
               => /\ fed' = fed + 1
                  /\ \/ (peak' > 300 /\ i <= peak' - 300)
                     \/ /\ rebuilds > 0
                        /\ \/ particles[i].x < 0 - 100 * 1000
                           \/ particles[i].x > (width + 100) * 1000
         /\ ((spawned' = spawned /\ rebuilds = 0) \/ fed' = fed)
               => \A i \in 1..Len(particles) :
                     particles[i].isGrounded
                        => particles[i].id \in Range(Ids(particles'))]_vars

\* a store of 300 grounded particles has been through a frame that spawned
\* nothing, on a canvas that was not resized: all 300 are where they were
C32_Witness ==
    /\ variant = "style"
    /\ Len(particles) = 300
    /\ \A i \in 1..Len(particles) : particles[i].isGrounded
    /\ peak = 300
    /\ culled = 0
    /\ rebuilds = 0


(***************************************************************************)
(* How long a particle of the wither variant lasts, under SpecFade         *)
(***************************************************************************)

\* C33: in the wither variant a dead leaf of the store has been through at
\* most 84 updateParticles calls and a live particle through at most 159
\* (each call takes 3.0 or 1.6 off a life that starts at 255), so the 85th
\* call removes a dead leaf and the 160th a live particle at the latest.
\* Spawning stops after frame SpawnWindow: the store is empty from frame
\* SpawnWindow + 159 on, and under mood -1, where only dead leaves are
\* spawned, from frame SpawnWindow + 84 on.
C33_RetiredWithinBoundedFrames ==
    variant = "wither" =>
        /\ \A i \in 1..Len(particles) :
              IF particles[i].isDead
              THEN 255 * 1000 - particles[i].life <= 84 * 3000
              ELSE 255 * 1000 - particles[i].life <= 159 * 1600
        /\ fed >= SpawnWindow + 159 => particles = <<>>
        /\ (plan[1].mood = 0 - Unit /\ fed >= SpawnWindow + 84) => particles = <<>>

\* a live particle that stayed above the bottom edge has just been spliced
\* out in its 160th call, with life 255 - 160 * 1.6 = -1
C33_Witness ==
    /\ variant = "wither"
    /\ Len(gone) = 1
    /\ ~gone[1].isDead
    /\ gone[1].life = 0 - Unit
    /\ gone[1].y <= (height + 50) * Unit
    /\ particles = <<>>
    /\ fed <= SpawnWindow + 159


(***************************************************************************)
(* SpecResize: resize events between the frames of a run long enough to    *)
(* set a latch.  The mood is held at 1 or at -1; in each frame no branch   *)
(* or one branch hits its spawn window.                                    *)
(***************************************************************************)

\* frames of a run: a latch is set in the 9th
ResizeFrames == 10

\* spawns explored in a run
MaxResizeSpawned == 2

ResizeScripts == {<<Seg(m, w, ResizeFrames)>> : m \in ExtremeMoods, w \in ScriptWinds}

InitResize == Created /\ Hosted /\ hasSink /\ plan \in ResizeScripts

ResizeSetup == Setup(ParticleSizes, BuildSeeds)

ResizeEvent ==
    \E s \in ParticleSizes :
       /\ s # <<width, height>>
       /\ WindowResized({s}, BuildSeeds)

ResizeFrame ==
    \E n \in {0, 1}, r \in SpawnDraws :
       /\ spawned + n <= MaxResizeSpawned
       /\ FeedFrame(n, r, 0)

NextResize == ResizeSetup \/ ResizeEvent \/ ResizeFrame

SpecResize == InitResize /\ [][NextResize]_vars

FullTurn == 5 * TWO_PI

\* an angle of the fixed-point arithmetic in the units of the matrix
Turned(angle) == 5 * angle

\* the matrix a frame starts with
FrameMatrix == [rot |-> 0, saved |-> <<>>, under |-> FALSE]

\* p.push()
push(st) == [st EXCEPT !.saved = Append(@, st.rot)]

\* p.pop()
pop(st) ==
    IF st.saved = <<>>
    THEN [st EXCEPT !.under = TRUE]
    ELSE [st EXCEPT !.rot = st.saved[Len(st.saved)],
                    !.saved = SubSeq(st.saved, 1, Len(st.saved) - 1)]

\* p.rotate(by)
rotate(st, by) == [st EXCEPT !.rot = (@ + by) % FullTurn]

RECURSIVE savedPetals(_, _)
\* for (let i = 0; i < 5; i++) { p.push(); p.rotate(p.TWO_PI / 5 * i); ...;
\* p.pop(); } of the sakura and delonix shapes, from petal i on
savedPetals(st, i) ==
    IF i >= 5 THEN st
    ELSE savedPetals(pop(rotate(push(st), (FullTurn \div 5) * i)), i + 1)

RECURSIVE turnedPetals(_, _)
\* for (let i = 0; i < 5; i++) { p.rotate(p.TWO_PI / 5); p.ellipse(...); } of
\* the peach shape, from petal i on
turnedPetals(st, i) ==
    IF i >= 5 THEN st
    ELSE turnedPetals(rotate(st, FullTurn \div 5), i + 1)

\* drawFlowerShape(style, size) on the matrix
drawFlowerShapeOn(style, st) ==
    IF style \in {"sakura", "delonix"}
    THEN savedPetals(st, 0)
    ELSE turnedPetals(st, 0)

\* a foliage whose flower block leaves without its pop
drawAttachedFoliageUnpopped(windAngle, hasFlower, bloomFactor, style, st) ==
    LET foliageSway == 3 * windAngle
        one == pop(rotate(push(st), Turned(TWO_PI \div 8 + foliageSway)))
        two == pop(rotate(push(one), Turned(foliageSway - TWO_PI \div 8)))
    IN  IF FlowerDrawn(hasFlower, bloomFactor)
        THEN drawFlowerShapeOn(style, rotate(push(two), Turned(foliageSway)))
        ELSE two

\* drawAttachedFoliage(windAngle, hasFlower, bloomFactor, style) on the matrix
drawAttachedFoliageOn(windAngle, hasFlower, bloomFactor, style, st) ==
    LET foliageSway == 3 * windAngle
        one == pop(rotate(push(st), Turned(TWO_PI \div 8 + foliageSway)))
        two == pop(rotate(push(one), Turned(foliageSway - TWO_PI \div 8)))
    IN  IF FlowerDrawn(hasFlower, bloomFactor)
        THEN pop(drawFlowerShapeOn(style, rotate(push(two), Turned(foliageSway))))
        ELSE two

RECURSIVE renderBranchOn(_, _, _, _, _, _)
RECURSIVE renderChildrenOn(_, _, _, _, _, _, _, _)
\* renderBranch(branch, len, ...) on the matrix, with the smoothed mood and
\* the style of the frame
renderBranchOn(branch, len, windAngle, mood, style, st) ==
    LET bloomFactor == bloomFactorOf(mood)
        own == IF InFoliageBand(branch) /\ isAttached(branch, bloomFactor)
               THEN drawAttachedFoliageOn(windAngle, branch.hasFlower,
                                          bloomFactor, style, st)
               ELSE st
        flexibility == map(branch.depth * Unit, 0, MAX_DEPTH * Unit,
                           (5 * Unit) \div 100, (13 * Unit) \div 10)
        localWind == RoundDiv(windAngle * flexibility, Unit)
    IN  IF RenderStops(branch, len)
        THEN own
        ELSE renderChildrenOn(branch.children, 1, len, localWind, windAngle,
                              mood, style, own)

\* for (const child of branch.children) { p.push(); p.rotate(nextAngle);
\* renderBranch(child, len * child.lenMult, ...); p.pop(); }, from the i-th
\* child on (a matrix that has lost a pop is followed no further)
renderChildrenOn(kids, i, len, localWind, windAngle, mood, style, st) ==
    IF st.under \/ i > Len(kids) THEN st
    ELSE LET nextAngle == kids[i].angleOffset + localWind
             inside == renderBranchOn(kids[i],
                                      RoundDiv(len * kids[i].lenMult, Unit),
                                      windAngle, mood, style,
                                      rotate(push(st), Turned(nextAngle)))
         IN  renderChildrenOn(kids, i + 1, len, localWind, windAngle, mood,
                              style, pop(inside))

RECURSIVE updateParticlesOn(_, _, _, _)
\* the render part of updateParticles on the matrix, for the renders of the
\* call in the order of the loop, from the i-th on
updateParticlesOn(renders, i, currentStyle, st) ==
    IF st.under \/ i > Len(renders) THEN st
    ELSE LET part == renders[i]
             placed == rotate(push(st), Turned(part.angle))
             shown == IF part.type = "flower"
                      THEN drawFlowerShapeOn(currentStyle, placed)
                      ELSE placed
         IN  updateParticlesOn(renders, i + 1, currentStyle, pop(shown))

\* p.draw on the matrix: the mood overlay, the tree if there is one, the
\* particles
drawOn(root, windAngle, mood, style, renders, st) ==
    LET overlay == pop(push(st))
        tree == IF root.built
                THEN pop(renderBranchOn(Skeleton(root), root.len, windAngle,
                                        mood, style, push(overlay)))
                ELSE overlay
    IN  updateParticlesOn(renders, 1, style, tree)

(***************************************************************************)
(* Frames of the style variant over skeletons with and without flowers, on *)
(* a canvas where the pass reaches the depth cap and on one where it stops *)
(* at short branches                                                       *)
(***************************************************************************)

\* frames of a run
StackFrames == 4

\* spawns explored in a run
MaxStackSpawned == 1

StackSeeds == {[a |-> Unit \div 2, b |-> 0], [a |-> 137, b |-> 379]}

StackScripts == {<<Seg(Unit, w, StackFrames)>> : w \in {0, Unit}}

InitStack ==
    Created /\ Hosted /\ variant = "style" /\ hasSink /\ plan \in StackScripts

StackSetup == Setup(GateSizes, StackSeeds)

StackSwitch == SetFlowerStyle(StyleTags)

StackFrame ==
    \E n \in {0, 1}, r \in GateDraws :
       /\ spawned + n <= MaxStackSpawned
       /\ FeedFrame(n, r, 0)

NextStack == StackSetup \/ StackSwitch \/ StackFrame

SpecStack == InitStack /\ [][NextStack]_vars

\* the steady part effectiveWind * 0.3 of a frame's wind angle, the wind's
\* magnitude standing for its power 1.4
RestingWindAngle(wind) == (3 * wind) \div 10

\* the matrix the last frame left, started from FrameMatrix
FrameLeaves ==
    drawOn(rootBranch, RestingWindAngle(currentWind), currentMood, frameStyle,
           drawn, FrameMatrix)

\* C35: a frame leaves the transform stack as it found it: no pop without a
\* push before it, nothing left saved and the rotation restored at the end
\* of draw; and drawFlowerShape, for every style tag and any other value,
\* leaves the matrix it was called with (the peach shape's five rotations
\* being a full turn), whatever the rotation and the stack of its caller.
C35_TransformStackBalanced ==
    /\ fed >= 1 => FrameLeaves = FrameMatrix
    /\ \A style \in StyleTags \cup {"other"} :
          \A st \in {FrameMatrix,
                      [rot |-> Turned(currentWind), saved |-> <<0, TWO_PI>>,
                       under |-> FALSE]} :
             drawFlowerShapeOn(style, st) = st

\* a frame on the full canvas that drew flowers on the tree and a flower
\* particle, in the peach style
C35_Witness ==
    /\ fed >= 4
    /\ height = 600
    /\ frameStyle = "peach"
    /\ \E i \in 1..Len(drawn) : drawn[i].type = "flower"
    /\ \E i \in 1..Len(RenderPass(rootBranch, currentMood)) :
          RenderPass(rootBranch, currentMood)[i].flower

\* C36: at most one predictLoop callback chain is active at any time: however
\* Start, Return to Start, a restart, the resolution of play() and the
\* animation-frame queue interleave, the queue never holds two predictLoop
\* callbacks.
C36_AtMostOneLoopChain == scheduled <= 1

(***************************************************************************)
(* SpecLanding: the App from its mount on.  The models load (or fail to)   *)
(* while the landing screen is up; either start control calls              *)
(* handleStartExperience, which waits for the camera request; the request  *)
(* is granted or rejected; the main view, initVideo, predictLoop and       *)
(* Return to Start are those of SpecApp.                                   *)
(***************************************************************************)

\* frames drawn in one run
LandingFrames == 2

\* the variables of a p5 instance
sketchVars ==
    <<phase, width, height, currentMood, currentWind, wasBlooming,
      wasWithering, particles, rootBranch, sunk, bloomed, trough, spawned,
      peak, culled, gone, rebuilds, frameStyle, drawn, seen>>

\* the App has just been mounted: the landing screen is up, loadModels is
\* waiting for initializeVision, no camera request has been made
InitLanding ==
    /\ Unstarted
    /\ modelsLoaded = FALSE
    /\ loading = TRUE
    /\ permissionError = FALSE
    /\ stream = FALSE
    /\ asking = FALSE
    /\ Counting

\* loadModels: initializeVision resolved, setModelsLoaded(true)
LoadModelsResolved ==
    /\ loading
    /\ loading' = FALSE
    /\ modelsLoaded' = TRUE
    /\ UNCHANGED <<variant, hasSink, sketchVars, treeState, plan, fed,
                   flowerStyle, hasStarted, isLooping, scheduled, sketches,
                   appMounted, awaiting, permissionError, stream, asking,
                   statVars>>

\* loadModels: initializeVision rejected, the catch logs the error
LoadModelsRejected ==
    /\ loading
    /\ loading' = FALSE
    /\ UNCHANGED <<variant, hasSink, sketchVars, treeState, plan, fed,
                   flowerStyle, hasStarted, isLooping, scheduled, sketches,
                   appMounted, awaiting, modelsLoaded, permissionError,
                   stream, asking, statVars>>

\* the start controls of the landing screen: the tree graphic
\* (onClick={handleStartExperience}) and the button (the same handler,
\* disabled={!modelsLoaded})
StartControls == {"tree", "button"}

\* whether a start control takes a click
ControlEnabled(control, loaded) == control = "button" => loaded

\* a click on a start control: handleStartExperience as far as its await
HandleStartExperience(controls) ==
    /\ appMounted
    /\ ~hasStarted
    /\ ~asking
    /\ ~awaiting
    /\ \E control \in controls : ControlEnabled(control, modelsLoaded)
    /\ asking' = TRUE
    /\ UNCHANGED <<variant, hasSink, sketchVars, treeState, plan, fed,
                   flowerStyle, hasStarted, isLooping, scheduled, sketches,
                   appMounted, awaiting, modelsLoaded, loading,
                   permissionError, stream, statVars>>

\* handleStartExperience after its await, the request granted: the stream is
\* stored and hasStarted set; the main view is rendered, with SketchContainer
\* unless permissionError is set, and the [hasStarted] effect calls
\* initVideo, which goes as far as its await unless the loop is already on
CameraGranted ==
    /\ asking
    /\ asking' = FALSE
    /\ stream' = TRUE
    /\ hasStarted' = TRUE
    /\ IF permissionError
       THEN UNCHANGED <<sketchVars, sketches>>
       ELSE NewSketch /\ sketches' = 1
    /\ awaiting' = ~isLooping
    /\ UNCHANGED <<variant, hasSink, treeState, plan, fed, flowerStyle,
                   isLooping, scheduled, appMounted, modelsLoaded, loading,
                   permissionError, statVars>>

\* handleStartExperience after its await, the request rejected: the catch
\* sets permissionError and hasStarted; the main view is rendered without
\* SketchContainer, and initVideo goes as far as its await if the ref still
\* holds a stream of an earlier start and the loop is off
CameraDenied ==
    /\ asking
    /\ asking' = FALSE
    /\ permissionError' = TRUE
    /\ hasStarted' = TRUE
    /\ awaiting' = (stream /\ ~isLooping)
    /\ UNCHANGED <<variant, hasSink, sketchVars, treeState, plan, fed,
                   flowerStyle, isLooping, scheduled, sketches, appMounted,
                   modelsLoaded, loading, stream, statVars>>

LandingStart == HandleStartExperience(StartControls)

LandingFrame ==
    /\ fed < LandingFrames
    /\ fed' = fed + 1
    /\ DrawWith(treeState, 0, NoDraws, 0)
    /\ UNCHANGED statVars
    /\ UNCHANGED <<treeState, plan>>

NextLanding ==
    \/ LoadModelsResolved
    \/ LoadModelsRejected
    \/ LandingStart
    \/ CameraGranted
    \/ CameraDenied
    \/ PlayResolved
    \/ PlayRejected
    \/ PredictTick
    \/ ReturnToStart
    \/ AppSetup
    \/ LandingFrame

SpecLanding == InitLanding /\ [][NextLanding]_vars

\* C37: the analysis loop calls analyzeFrame (and so replaces the snapshot by
\* its result) only once initializeVision has resolved, whichever start
\* control of the landing screen started the experience.
C37_AnalysisOnlyAfterModelsLoaded ==
    [][treeState' # treeState => modelsLoaded]_vars

\* C39: after a camera request has failed no sketch is mounted, so no frame
\* is drawn and the bloom counter stays as it is, and predictLoop is not
\* started.
C39_FailedRequestStartsNothing ==
    /\ [](permissionError => phase = "absent")
    /\ [][permissionError => (stats' = stats /\ (isLooping' => isLooping))]_vars

(***************************************************************************)
(* SpecStats: the daily statistics of the App.  The Initialize Stats       *)
(* effect reads the stored item once, the sketch's frames pass their       *)
(* events to handleTreeEvent, and the date may change while the session    *)
(* runs.  The updater handleTreeEvent hands to setStats is taken to run    *)
(* with the frame that raised the event.                                   *)
(***************************************************************************)

\* frames of a script's rising segments
StatsHold == 9

\* a smile long enough for a bloom, a short frown that clears the latch and
\* another smile; a smile followed by a frown long enough for a wither event
StatsScripts ==
    {<<Seg(Unit, 0, StatsHold), Seg(0 - Unit, 0, 3), Seg(Unit, 0, StatsHold)>>,
     <<Seg(Unit, 0, StatsHold), Seg(0 - Unit, 0, 2 * StatsHold)>>}

\* what localStorage may hold under 'emotionTreeStats' when the App loads:
\* nothing, or the stats of the day before or of this day
StoredItems ==
    {[present |-> FALSE, blooms |-> 0, date |-> 0]} \cup
    {[present |-> TRUE, blooms |-> k, date |-> d] : k \in {0, 3}, d \in {1, 2}}

InitStats ==
    /\ Created
    /\ MainViewUp
    /\ Landed
    /\ hasSink
    /\ plan \in StatsScripts
    /\ today = 2
    /\ stats = [blooms |-> 0, date |-> 0]
    /\ stored \in StoredItems
    /\ restored = [done |-> FALSE, blooms |-> 0, date |-> 0]
    /\ tally = [d \in Dates |-> 0]

\* the Initialize Stats effect (throws: localStorage raised an error, which
\* the catch answers with {blooms: 0, date: today})
InitializeStats ==
    /\ ~restored.done
    /\ \E throws \in BOOLEAN :
          IF throws
          THEN /\ stats' = [blooms |-> 0, date |-> today]
               /\ restored' = [done |-> TRUE, blooms |-> 0, date |-> 0]
               /\ stored' = stored
          ELSE IF stored.present /\ stored.date = today
          THEN /\ stats' = [blooms |-> stored.blooms, date |-> stored.date]
               /\ restored' = [done |-> TRUE, blooms |-> stored.blooms,
                               date |-> stored.date]
               /\ stored' = stored
          ELSE /\ stats' = [blooms |-> 0, date |-> today]
               /\ restored' = [done |-> TRUE, blooms |-> 0, date |-> 0]
               /\ stored' = [present |-> TRUE, blooms |-> 0, date |-> today]
    /\ UNCHANGED <<variant, hasSink, sketchVars, treeState, plan, fed,
                   hostVars, today, tally>>

\* midnight passes: new Date().toLocaleDateString() returns the next date
DayChanges ==
    /\ today < MaxDay
    /\ today' = today + 1
    /\ UNCHANGED <<variant, hasSink, sketchVars, treeState, plan, fed,
                   hostVars, stats, stored, restored, tally>>

\* the updater of handleTreeEvent: events other than 'bloom' return early
handleTreeEvent(prev, event, day) ==
    IF event # "bloom" THEN prev
    ELSE [blooms |-> prev.blooms + 1, date |-> day]

RECURSIVE handleTreeEvents(_, _, _)
\* the calls of one frame, in order
handleTreeEvents(prev, calls, day) ==
    IF calls = <<>> THEN prev
    ELSE handleTreeEvents(handleTreeEvent(prev, Head(calls), day), Tail(calls), day)

\* the 'bloom' events among the calls of a frame
BloomsIn(calls) == Len(SelectSeq(calls, LAMBDA event : event = "bloom"))

StatsSetup == Setup(CanvasSizes, BuildSeeds)

\* the state source supplies the frame's snapshot, p.draw runs, and the
\* events it raises are counted and stored
StatsFrame ==
    /\ restored.done
    /\ fed < TotalFrames(plan)
    /\ treeState' = SnapshotAt(plan, fed)
    /\ fed' = fed + 1
    /\ DrawWith(SnapshotAt(plan, fed), 0, NoDraws, 0)
    /\ stats' = handleTreeEvents(stats, sunk', today)
    /\ stored' = IF BloomsIn(sunk') > 0
                 THEN [present |-> TRUE, blooms |-> stats'.blooms,
                       date |-> stats'.date]
                 ELSE stored
    /\ tally' = [tally EXCEPT ![today] = @ + BloomsIn(sunk')]
    /\ UNCHANGED <<plan, today, restored>>

NextStats == InitializeStats \/ DayChanges \/ StatsSetup \/ StatsFrame

SpecStats == InitStats /\ [][NextStats]_vars

\* C38: the counter counts the blooms of its date: stats.blooms is the
\* number of 'bloom' events handled on the date stats.date holds plus the
\* count restored from storage for that date.
C38_CounterCountsItsDate ==
    stats.blooms = tally[stats.date]
                   + (IF restored.done /\ restored.date = stats.date
                      THEN restored.blooms ELSE 0)
====
